---- MODULE Spec2Model ----
(***************************************************************************)
(* A model of the amethyst plugin / widget registration framework.         *)
(*                                                                         *)
(* The repository holds two generations of the client:                     *)
(*   Client          (src/src/amethyst/amethyst.py)  keeps a registry of   *)
(*                   plugins and a list of registered widgets;             *)
(*   AmethystClient  (src/src/amethyst/client.py)    keeps an event table, *)
(*                   a list of schedules and one cron loop.                *)
(* The variable kind says which of the two classes was constructed; cl is  *)
(* the Client object, am the AmethystClient object, net the application    *)
(* commands the remote service holds for the application.                  *)
(***************************************************************************)
EXTENDS Integers, Sequences, FiniteSets, TLC

VARIABLES kind, cl, am, net, run, now, last

vars == <<kind, cl, am, net, run, now, last>>

(* ------------------------------------------------------------------ *)
(* Bounds of the model                                                 *)
(* ------------------------------------------------------------------ *)

\* Nested register_plugin calls the interpreter allows before RecursionError.
MaxDepth == 3

\* Plugin instances constructed in one behaviour.
MaxInst == 4

(* ------------------------------------------------------------------ *)
(* Helpers                                                             *)
(* ------------------------------------------------------------------ *)

Range(s) == {s[i] : i \in 1..Len(s)}

Contains(s, x) == \E i \in 1..Len(s) : s[i] = x

EmptyMap == [e \in {} |-> <<>>]

NoCall == [op |-> "none", arg |-> "none", exc |-> "none"]

Call(op, arg, exc) == [op |-> op, arg |-> arg, exc |-> exc]

Raise(st, e) == [st EXCEPT !.exc = e]

Ok(st) == st.exc = "none"

(* ------------------------------------------------------------------ *)
(* The application under registration: Client generation               *)
(* ------------------------------------------------------------------ *)

\* Dependency types an application may add to the DependencyLibrary.
DepTypes == {"Db", "Cfg"}

\* The objects the application passes to add_dependency: two Db objects, a
\* Cfg object, and the class Db itself (an object whose type is type).
DepValues == {[type |-> "Db", id |-> 1], [type |-> "Db", id |-> 2],
              [type |-> "Cfg", id |-> 1], [type |-> "type", id |-> 1]}

\* The types that have a value in the library st.deps.
TypesIn(deps) == {v.type : v \in deps}

\* Plugin classes of the application.  EventW and Loop are WidgetPlugin
\* subclasses; Loop declares a widget of its own widget class.  Cron holds
\* two schedule widgets.
PluginTypes == {"Alpha", "Beta", "Cron", "EventW", "Loop"}

\* Plugin classes that declare a context menu with a malformed callback:
\* Short's has two parameters, Bare's second menu has three with the last
\* one unannotated.
BrokenPluginTypes == {"Short", "Bare"}

\* Plugin classes that inherit from another plugin class: Nightly is a
\* subclass of Cron, so the schedule widgets of Cron are attributes of its
\* instances as well; it adds a context menu of its own.
DerivedPluginTypes == {"Nightly"}

AllPluginTypes == PluginTypes \cup BrokenPluginTypes \cup DerivedPluginTypes

IsWidgetPlugin(p) == p \in {"EventW", "Loop"}

\* Parameter types of the plugin's constructor.
Requires(p) == IF p = "Beta" THEN {"Db"} ELSE {}

\* The widget attributes load_object finds on an instance, in attribute order.
WidgetsOf(p) ==
    CASE p = "Alpha"  -> <<"a_menu", "a_on_msg">>
      [] p = "Beta"   -> <<"b_menu", "b_on_msg", "b_on_save">>
      [] p = "Cron"   -> <<"c_even", "c_min">>
      [] p = "EventW" -> <<>>
      [] p = "Loop"   -> <<"l_self">>
      [] p = "Short"  -> <<"two_params">>
      [] p = "Bare"   -> <<"pre_menu", "bare_menu">>
      [] p = "Nightly" -> <<"c_even", "c_min", "n_menu">>

\* len(inspect.signature(callback).parameters) of a context menu's callback
ParamCount(w) == IF w = "two_params" THEN 2 ELSE 3

\* subject.annotation is not subject.empty, for the last parameter
SubjectAnnotated(w) == w # "bare_menu"

\* The WidgetPlugin whose metaclass replaced the widget class's register by
\* its proxy; "none" for a widget class with a register of its own.
WidgetPluginOf(w) ==
    CASE w \in {"a_on_msg", "b_on_msg", "b_on_save"} -> "EventW"
      [] w = "l_self" -> "Loop"
      [] OTHER -> "none"

\* Widgets made by the schedule decorator (widget/schedule.py).
IsScheduleWidget(w) == w \in {"c_even", "c_min"}

\* Modules the module loader may be asked for, and the values found in them.
ModuleNames == {".plugins", ".commands", ".missing"}

Importable(m) == m # ".missing"

ModuleValues(m) ==
    CASE m = ".plugins"  -> <<"EventW", "Alpha", "Beta">>
      [] m = ".commands" -> <<"Alpha", "Loop">>
      [] OTHER -> <<>>

ModuleLists == {<<".plugins">>, <<".missing", ".commands">>, <<".commands", ".plugins">>}

(* ------------------------------------------------------------------ *)
(* Client (amethyst.py)                                                *)
(* ------------------------------------------------------------------ *)

ClientInit ==
    [ deps     |-> {},
      plugins  |-> [p \in AllPluginTypes |-> 0],
      widgets  |-> <<>>,
      tree     |-> <<>>,
      wregs    |-> <<>>,
      modules  |-> {},
      objects  |-> {},
      guild    |-> 0,
      listeners |-> <<>>,
      tasks    |-> <<>>,
      started  |-> <<>>,
      setup    |-> FALSE,
      sloops   |-> <<>>,
      ready    |-> FALSE,
      closed   |-> FALSE,
      nextInst |-> 1,
      objs     |-> <<>>,
      made     |-> [p \in AllPluginTypes |-> 0],
      exc      |-> "none" ]

HasPluginNever(st, p) == FALSE

\* What a plugin instance holds of its client: the _client attribute, and
\* the value of that attribute when the body of __init__ ran ("none" while
\* it has not run).
ThisClient == "self"

NewObject == [client |-> "unset", seen |-> "none"]

\* instance.__init__(...): the constructor body finds the attribute as the
\* instance holds it at the call.
ConstructorBody(o) == [o EXCEPT !.seen = o.client]

ConstructThenSetClient(o) ==
    [ConstructorBody(o) EXCEPT !.client = ThisClient]

\* instance._client = self, then the injected call of instance.__init__.
SetClientThenConstruct(o) ==
    ConstructorBody([o EXCEPT !.client = ThisClient])

\* plugin in self._plugins
HasPlugin(st, p) == st.plugins[p] # 0

InjectAlways(st, p) == TRUE

\* self._dependencies.inject(instance.__init__): every parameter type of the
\* constructor is looked up in the library.
InjectOk(st, p) == Requires(p) \subseteq TypesIn(st.deps)

\* discord's CommandTree.add_command refuses a name it already holds.
TreeAdd(st, name) ==
    IF Contains(st.tree, name)
    THEN Raise(st, "CommandAlreadyRegistered")
    ELSE [st EXCEPT !.tree = Append(@, name)]

CreateLoopTaskEager(st, w, inst) ==
    [st EXCEPT !.sloops = Append(@, [w |-> w, inst |-> inst, pc |-> "new",
                                     when |-> 0, wake |-> 0, began |-> 0]),
               !.started = Append(@, Len(st.sloops) + 1)]

\* Client.create_task for the loop of a schedule widget: the coroutine is
\* handed to the event loop when the pending list is gone (self._tasks is
\* None, after setup_hook), and appended to the pending list before.
\* started lists the coroutines handed to loop.create_task, in order.
CreateLoopTask(st, w, inst) ==
    LET i == Len(st.sloops) + 1 IN
    IF st.setup
    THEN [st EXCEPT !.sloops = Append(@, [w |-> w, inst |-> inst, pc |-> "new",
                                          when |-> 0, wake |-> 0, began |-> 0]),
                    !.started = Append(@, i)]
    ELSE [st EXCEPT !.sloops = Append(@, [w |-> w, inst |-> inst, pc |-> "queued",
                                          when |-> 0, wake |-> 0, began |-> 0]),
                    !.tasks = Append(@, i)]

ContextMenuRegisterUnchecked(st, w) == TreeAdd(st, w)

\* ContextMenuWidget.register: bound() inspects the callback's signature
\* before the ContextMenu is built and added to the tree.
ContextMenuRegister(st, w) ==
    IF ParamCount(w) # 3 THEN Raise(st, "ValueError")
    ELSE IF ~SubjectAnnotated(w) THEN Raise(st, "ValueError")
    ELSE TreeAdd(st, w)

RECURSIVE RegisterPluginOp(_, _, _)
RECURSIVE LoadWidgets(_, _, _, _, _)

\* widget.register(instance, client): the proxy injected by _WidgetPluginMeta
\* for a widget of a WidgetPlugin, the widget's own register otherwise.
WidgetRegister(st, w, inst, depth) ==
    LET wp == WidgetPluginOf(w) IN
    IF IsScheduleWidget(w) THEN CreateLoopTask(st, w, inst)
    ELSE IF wp = "none"
    THEN ContextMenuRegister(st, w)
    ELSE LET s1 == IF ~HasPlugin(st, wp)
                   THEN RegisterPluginOp(st, wp, depth + 1)
                   ELSE st
         IN  IF ~Ok(s1) THEN s1
             ELSE IF ~HasPlugin(s1, wp) THEN Raise(s1, "KeyError")
             ELSE [s1 EXCEPT !.wregs = Append(@, <<s1.plugins[wp], w, inst>>)]

RECURSIVE LoadWidgetsUnguarded(_, _, _, _, _)
LoadWidgetsUnguarded(st, p, inst, i, depth) ==
    IF i > Len(WidgetsOf(p)) THEN st
    ELSE LET w  == WidgetsOf(p)[i]
             s1 == WidgetRegister(st, w, inst, depth)
         IN  IF ~Ok(s1) THEN s1
             ELSE LoadWidgetsUnguarded([s1 EXCEPT !.widgets = Append(@, w)],
                                       p, inst, i + 1, depth)

\* loader.load_object(instance) with the widget handler of register_plugin.
LoadWidgets(st, p, inst, i, depth) ==
    IF i > Len(WidgetsOf(p)) THEN st
    ELSE LET w == WidgetsOf(p)[i] IN
         IF Contains(st.widgets, w)
         THEN LoadWidgets(st, p, inst, i + 1, depth)
         ELSE LET s1 == WidgetRegister(st, w, inst, depth) IN
              IF ~Ok(s1) THEN s1
              ELSE LoadWidgets([s1 EXCEPT !.widgets = Append(@, w)],
                               p, inst, i + 1, depth)

\* Client.register_plugin, nested calls included.
RegisterPluginOp(st, p, depth) ==
    IF depth > MaxDepth THEN Raise(st, "RecursionError")
    ELSE IF HasPlugin(st, p) THEN Raise(st, "DuplicatePluginError")
    ELSE IF ~InjectOk(st, p) THEN Raise(st, "PluginDependencyError")
    ELSE LET inst == st.nextInst
             s1 == [st EXCEPT !.nextInst = @ + 1, !.made[p] = @ + 1,
                              !.objs = Append(@, SetClientThenConstruct(NewObject))]
             s2 == LoadWidgets(s1, p, inst, 1, depth)
         IN  IF ~Ok(s2) THEN s2 ELSE [s2 EXCEPT !.plugins[p] = inst]

DiscoverValueUnsuppressed(st, v) ==
    IF IsWidgetPlugin(v) THEN st ELSE RegisterPluginOp(st, v, 1)

\* The handler of the module loader: every Plugin subclass that is not a
\* WidgetPlugin is registered, DuplicatePluginError suppressed.
DiscoverValue(st, v) ==
    IF IsWidgetPlugin(v) THEN st
    ELSE LET s1 == RegisterPluginOp(st, v, 1) IN
         IF s1.exc = "DuplicatePluginError" THEN Raise(s1, "none") ELSE s1

RECURSIVE LoadModuleValues(_, _, _)
LoadModuleValues(st, vs, i) ==
    IF i > Len(vs) THEN st
    ELSE LET s1 == DiscoverValue(st, vs[i]) IN
         IF ~Ok(s1) THEN s1 ELSE LoadModuleValues(s1, vs, i + 1)

RECURSIVE LoadPluginsOp(_, _, _)
\* Client.load_plugins: ImportError of a module is suppressed.
LoadPluginsOp(st, ms, i) ==
    IF i > Len(ms) THEN st
    ELSE IF ~Importable(ms[i]) THEN LoadPluginsOp(st, ms, i + 1)
    ELSE LET s1 == LoadModuleValues([st EXCEPT !.modules = @ \cup {ms[i]}],
                                    ModuleValues(ms[i]), 1)
         IN  IF ~Ok(s1) THEN s1 ELSE LoadPluginsOp(s1, ms, i + 1)

AddDependencyAlways(st, d) == [st EXCEPT !.deps = @ \cup {d}]

\* Client.add_dependency and AmethystClient.add_dependency: both hand the
\* object to DependencyLibrary.add, which refuses a type object and an
\* object whose type already has a value.
AddDependencyOp(st, d) ==
    IF d.type = "type" THEN Raise(st, "TypeError")
    ELSE IF d.type \in TypesIn(st.deps)
    THEN Raise(st, "DuplicateDependencyError")
    ELSE [st EXCEPT !.deps = @ \cup {d}]

Done(st) == [st EXCEPT !.exc = "none"]

RegisterPlugin(p) ==
    /\ kind = "Client"
    /\ cl.nextInst <= MaxInst
    /\ LET r == RegisterPluginOp(cl, p, 1) IN
         /\ cl' = Done(r)
         /\ last' = Call("register_plugin", p, r.exc)
    /\ UNCHANGED <<kind, net, am, run, now>>

LoadPlugins(ms) ==
    /\ kind = "Client"
    /\ cl.nextInst <= MaxInst
    /\ LET r == LoadPluginsOp(cl, ms, 1) IN
         /\ cl' = Done(r)
         /\ last' = Call("load_plugins", ms, r.exc)
    /\ UNCHANGED <<kind, net, am, run, now>>

AddDependency(d) ==
    /\ kind = "Client"
    /\ LET r == AddDependencyOp(cl, d) IN
         /\ cl' = Done(r)
         /\ last' = Call("add_dependency", d, r.exc)
    /\ UNCHANGED <<kind, net, am, run, now>>

(* ------------------------------------------------------------------ *)
(* The application under registration: AmethystClient generation       *)
(* ------------------------------------------------------------------ *)

\* AmethystPlugin subclasses of the application.
AmPluginTypes == {"Greeter", "Store"}

AmRequires(p) == IF p = "Store" THEN {"Db"} ELSE {}

\* The widget attributes of an instance, in attribute (dir) order.
AmWidgetsOf(p) ==
    CASE p = "Greeter" -> <<"greet", "hello", "tick">>
      [] p = "Store"   -> <<"on_save", "save">>

WidgetKind(w) ==
    CASE w \in {"hello", "save", "ping", "ban"} -> "command"
      [] w \in {"tick", "tock", "tack", "even"} -> "schedule"
      [] OTHER -> "event"

\* Events: the DiscordPyEvent instances are coroutine events.
Events == {"on_ready", "on_message", "on_setup_hook", "saved"}

IsDiscordPyEvent(e) == e \in {"on_ready", "on_message", "on_setup_hook"}

IsCoroutine(e) == IsDiscordPyEvent(e)

\* Event handlers: the callback's name, its event and whether it raises.
Handlers == {"greet", "on_save", "m_ok", "m_bad", "s_a", "s_b", "s_bad", "r_ok",
             "u_ok"}

EventOf(h) ==
    CASE h \in {"greet", "m_ok", "m_bad"} -> "on_message"
      [] h \in {"on_save", "s_a", "s_b", "s_bad"} -> "saved"
      [] h = "u_ok" -> "on_setup_hook"
      [] h \in Events -> h
      [] OTHER -> "on_ready"

HandlerRaises(h) == h \in {"m_bad", "s_bad"}

\* Attributes the AmethystClient class itself defines under an event's name.
ClassAttrs == {"on_ready"}

(* ------------------------------------------------------------------ *)
(* Widgets and their binding (widget/abc.py, widget/plugin.py)         *)
(* ------------------------------------------------------------------ *)

\* The widget objects the decorators create when the application's modules
\* are imported: the class-level descriptors of the plugin classes, then the
\* handlers and schedules declared outside any plugin.
DescNames == <<"greet", "hello", "tick", "on_save", "save", "old_cmd",
               "m_ok", "m_bad", "s_a", "s_b", "s_bad", "r_ok",
               "tock", "tack", "even", "ping", "ban", "u_ok">>

DescId(n) == CHOOSE i \in 1..Len(DescNames) : DescNames[i] = n

\* Plugin classes that can be constructed: Greeter and Store derive from
\* widget/abc.py's AmethystPlugin, Legacy from widget/plugin.py's.
BindClasses == AmPluginTypes \cup {"Legacy"}

ClassWidgets(c) == IF c = "Legacy" THEN <<"old_cmd">> ELSE AmWidgetsOf(c)

\* The value of the binding attribute after the widget's __init__: None (0)
\* for a CallbackWidget, the expression AmethystPlugin | None (-1) for a
\* BindableWidget.
InitBinding(n) == IF n = "old_cmd" THEN -1 ELSE 0

\* Widgets of class AmethystCommand, which is also a discord Command and
\* carries that class's own attribute binding (cmdBinding, None after
\* Command.__init__) next to CallbackWidget's _binding.
IsAmethystCommand(cb) == WidgetKind(cb) = "command"

HeapInit == [i \in 1..Len(DescNames) |->
               [cb |-> DescNames[i], binding |-> InitBinding(DescNames[i]),
                cmdBinding |-> 0]]

BoundCopyInPlace(heap, w, binding) ==
    [heap |-> [heap EXCEPT ![w].binding = binding], id |-> w]

\* CallbackWidget._bound_copy / BindableWidget._bound_copy: a shallow copy
\* whose binding is set.
BoundCopy(heap, w, binding) ==
    [heap |-> Append(heap, [heap[w] EXCEPT !.binding = binding]),
     id   |-> Len(heap) + 1]

\* AmethystCommand._bound_copy: Command._copy_with(parent, binding) makes a
\* shallow copy and sets the Command's binding on it; _binding is copied as
\* it is.
CopyWith(heap, w, binding) ==
    [heap |-> Append(heap, [heap[w] EXCEPT !.cmdBinding =
                                             IF @ # 0 THEN 0 ELSE binding]),
     id   |-> Len(heap) + 1]

\* v._bound_copy(self), resolved by the widget's class.
WidgetBoundCopy(heap, w, binding) ==
    IF IsAmethystCommand(heap[w].cb) THEN CopyWith(heap, w, binding)
    ELSE BoundCopy(heap, w, binding)

\* The plugin instance a widget object refers to, by the attribute its
\* class keeps it in; 0 for None.
BindingOf(heap, w) ==
    IF IsAmethystCommand(heap[w].cb) THEN heap[w].cmdBinding
    ELSE heap[w].binding

\* Arguments a caller passes to a widget, and a plugin instance as argument.
ArgLists == {<<>>, <<[val |-> "a"]>>, <<[val |-> "a"], [val |-> "b"]>>}

PluginObject(i) == [plugin |-> i]

\* Calling a callback with the parameters given: what the callback received
\* and the value it returns (a value that tells which call produced it).
CallCallback(cb, params) ==
    [cb |-> cb, params |-> params, ret |-> [of |-> cb, for |-> params]]

WidgetInvokeUnbound(heap, w, args) == CallCallback(heap[w].cb, args)

\* CallbackWidget.invoke
WidgetInvoke(heap, w, args) ==
    IF heap[w].binding # 0
    THEN CallCallback(heap[w].cb, <<PluginObject(heap[w].binding)>> \o args)
    ELSE CallCallback(heap[w].cb, args)

\* BaseWidget.bound(plugin)(*args): the function returned calls the
\* callback with the plugin before the arguments.
BaseWidgetBound(cb, plugin, args) ==
    CallCallback(cb, <<PluginObject(plugin)>> \o args)

BindWidgetsSkipped(st, c, inst, i) ==
    [st EXCEPT !.insts[inst].attrs =
                 [n \in Range(ClassWidgets(c)) |-> DescId(n)]]

RECURSIVE BindWidgets(_, _, _, _)
\* AmethystPlugin._bind_widgets: setattr(self, n, v._bound_copy(self)) for
\* every widget attribute n found on the new instance.  getattr on the new
\* instance yields the class attribute until the instance attribute is set.
BindWidgets(st, c, inst, i) ==
    IF i > Len(ClassWidgets(c)) THEN st
    ELSE LET n == ClassWidgets(c)[i]
             r == WidgetBoundCopy(st.heap, DescId(n), inst)
         IN  BindWidgets([st EXCEPT !.heap = r.heap,
                                    !.insts[inst].attrs =
                                        [x \in DOMAIN @ \cup {n} |->
                                           IF x = n THEN r.id ELSE @[x]]],
                         c, inst, i + 1)

\* AmethystPlugin.__new__
NewPlugin(st, c) ==
    LET inst == Len(st.insts) + 1 IN
    BindWidgets([st EXCEPT !.insts = Append(@, [cls |-> c, attrs |-> EmptyMap,
                                                client |-> NewObject.client,
                                                seen |-> NewObject.seen])],
                c, inst, 1)

(* ------------------------------------------------------------------ *)
(* AmethystClient (client.py): registration                            *)
(* ------------------------------------------------------------------ *)

AmInit ==
    [ deps      |-> {},
      heap      |-> HeapInit,
      insts     |-> <<>>,
      tree      |-> <<>>,
      events    |-> EmptyMap,
      attrs     |-> {},
      schedules |-> <<>>,
      modules   |-> {},
      sleep     |-> 0,
      loops     |-> <<>>,
      ready     |-> FALSE,
      onready   |-> FALSE,
      setup     |-> FALSE,
      closed    |-> FALSE,
      exc       |-> "none" ]

\* What has been observed of the callbacks: the handlers called by the last
\* synchronous invoke_event, the tasks of the last asyncio.gather and what
\* the awaiting caller got from it, the schedule callbacks started and the
\* occurrences skipped.
RunInit == [calls |-> <<>>, tasks |-> <<>>, gather |-> "idle", ret |-> "none",
            fired |-> {}, skipped |-> {}]

\* A fresh cron loop task, created by loop.create_task(self._schedule_loop()).
\* by records the method that created it.
NewLoop(by) == [pc |-> "new", map |-> EmptyMap, next |-> 0, final |-> FALSE,
                wake |-> 0, task |-> "none", began |-> 0, by |-> by]

\* A client on which no attribute is ever found.
HasAttrNever(st, name) == FALSE

\* hasattr(self, event.name)
HasAttr(st, name) == name \in ClassAttrs \/ name \in st.attrs

\* AmethystClient.register_command: CommandTree.add_command refuses a name
\* it already holds.
RegisterCommandOp(st, c) ==
    IF \E i \in 1..Len(st.tree) : st.heap[st.tree[i]].cb = st.heap[c].cb
    THEN Raise(st, "CommandAlreadyRegistered")
    ELSE [st EXCEPT !.tree = Append(@, c)]

\* AmethystClient.register_event
RegisterEventOp(st, h) ==
    LET e  == EventOf(st.heap[h].cb)
        s1 == IF e \in DOMAIN st.events THEN st
              ELSE [st EXCEPT
                      !.events = [x \in DOMAIN st.events \cup {e} |->
                                    IF x = e THEN <<>> ELSE st.events[x]],
                      !.attrs = IF IsDiscordPyEvent(e) /\ ~HasAttr(st, e)
                                THEN @ \cup {e} ELSE @]
    IN  [s1 EXCEPT !.events[e] = Append(@, h)]

RegisterScheduleEager(st, s) ==
    [st EXCEPT !.schedules = Append(@, s),
               !.loops = Append(@, NewLoop("register_schedule"))]

RegisterScheduleNoCancel(st, s) ==
    LET s1 == [st EXCEPT !.schedules = Append(@, s)] IN
    IF s1.sleep = 0 /\ s1.ready
    THEN [s1 EXCEPT !.loops = Append(@, NewLoop("register_schedule"))]
    ELSE s1

\* AmethystClient.register_schedule
RegisterScheduleOp(st, s) ==
    LET s1 == [st EXCEPT !.schedules = Append(@, s)] IN
    IF s1.sleep = 0
    THEN IF s1.ready
         THEN [s1 EXCEPT !.loops = Append(@, NewLoop("register_schedule"))]
         ELSE s1
    ELSE IF s1.loops[s1.sleep].task \notin {"cancelled", "cancelling"}
         THEN [s1 EXCEPT !.loops[s1.sleep].task =
                           IF @ = "pending" THEN "cancelling" ELSE @]
         ELSE s1

\* One value found by the client's loader on a plugin instance.
AmDispatch(st, v) ==
    CASE WidgetKind(st.heap[v].cb) = "command"  -> RegisterCommandOp(st, v)
      [] WidgetKind(st.heap[v].cb) = "event"    -> RegisterEventOp(st, v)
      [] WidgetKind(st.heap[v].cb) = "schedule" -> RegisterScheduleOp(st, v)

RECURSIVE AmLoadObject(_, _, _)
\* self._loader.load_object(instance): the instance's attributes, which
\* __new__ has replaced by bound copies.
AmLoadObject(st, inst, i) ==
    LET ws == ClassWidgets(st.insts[inst].cls) IN
    IF i > Len(ws) THEN st
    ELSE LET s1 == AmDispatch(st, st.insts[inst].attrs[ws[i]]) IN
         IF ~Ok(s1) THEN s1 ELSE AmLoadObject(s1, inst, i + 1)

AmInjectAlways(st, p) == TRUE

AmInjectOk(st, p) == AmRequires(p) \subseteq TypesIn(st.deps)

\* AmethystClient.register_plugin.  The instance of a failed injection is
\* dropped with the exception and leaves nothing behind.
AmRegisterPluginOp(st, p) ==
    IF ~AmInjectOk(st, p) THEN Raise(st, "RegisterPluginError")
    ELSE LET inst == Len(st.insts) + 1
             s1   == NewPlugin(st, p)
         IN  AmLoadObject([s1 EXCEPT !.insts[inst] = SetClientThenConstruct(@)],
                          inst, 1)

\* What the modules of an AmethystClient application hold: plugin classes
\* and widgets declared outside any plugin.
AmModuleValues(m) ==
    CASE m = ".plugins"  -> <<"Greeter">>
      [] m = ".commands" -> <<"ping", "m_ok", "tock">>
      [] OTHER -> <<>>

\* The handlers of _build_loader for one value of a module.
AmDiscoverValue(st, v) ==
    IF v \in AmPluginTypes THEN AmRegisterPluginOp(st, v)
    ELSE AmDispatch(st, DescId(v))

RECURSIVE AmLoadModuleValues(_, _, _)
AmLoadModuleValues(st, vs, i) ==
    IF i > Len(vs) THEN st
    ELSE LET s1 == AmDiscoverValue(st, vs[i]) IN
         IF ~Ok(s1) THEN s1 ELSE AmLoadModuleValues(s1, vs, i + 1)

RECURSIVE AmLoadModulesOp(_, _, _)
\* AmethystClient._load_modules: load_module is called with nothing around
\* it, so the ImportError of a module leaves the method.
AmLoadModulesOp(st, ms, i) ==
    IF i > Len(ms) THEN st
    ELSE IF ~Importable(ms[i]) THEN Raise(st, "ImportError")
    ELSE LET s1 == AmLoadModuleValues([st EXCEPT !.modules = @ \cup {ms[i]}],
                                      AmModuleValues(ms[i]), 1)
         IN  IF ~Ok(s1) THEN s1 ELSE AmLoadModulesOp(s1, ms, i + 1)

\* AmethystClient.load
AmLoad(ms) ==
    /\ kind = "AmethystClient"
    /\ Len(am.insts) < MaxInst
    /\ LET r == AmLoadModulesOp(am, ms, 1) IN
         /\ am' = Done(r)
         /\ last' = Call("load", ms, r.exc)
    /\ UNCHANGED <<kind, net, cl, run, now>>

AmRegisterPlugin(p) ==
    /\ kind = "AmethystClient"
    /\ Len(am.insts) < MaxInst
    /\ LET r == AmRegisterPluginOp(am, p) IN
         /\ am' = Done(r)
         /\ last' = Call("register_plugin", p, r.exc)
    /\ UNCHANGED <<kind, net, cl, run, now>>

AmAddDependency(d) ==
    /\ kind = "AmethystClient"
    /\ LET r == AddDependencyOp(am, d) IN
         /\ am' = Done(r)
         /\ last' = Call("add_dependency", d, r.exc)
    /\ UNCHANGED <<kind, net, cl, run, now>>

(* ------------------------------------------------------------------ *)
(* Specification of plugin registration                                *)
(* ------------------------------------------------------------------ *)

InitReg ==
    /\ kind \in {"Client", "AmethystClient"}
    /\ cl = ClientInit
    /\ am = AmInit
    /\ run = RunInit
    /\ net = <<>>
    /\ now = 0
    /\ last = NoCall

NextReg ==
    \/ \E p \in AllPluginTypes : RegisterPlugin(p)
    \/ \E ms \in ModuleLists : LoadPlugins(ms)
    \/ \E d \in DepValues : AddDependency(d)
    \/ \E p \in AmPluginTypes : AmRegisterPlugin(p)
    \/ \E d \in DepValues : AmAddDependency(d)
    \/ \E ms \in ModuleLists : AmLoad(ms)

SpecReg == InitReg /\ [][NextReg]_vars

(* ------------------------------------------------------------------ *)
(* Claims about plugin registration                                    *)
(* ------------------------------------------------------------------ *)

IsRegisterCall(c, p) == c.op = "register_plugin" /\ c.arg = p

\* C1: registering a plugin type that is already in the Client's registry
\* raises DuplicatePluginError and leaves the registry (every type's
\* instance) and the list of registered widgets as they were.
C1_DuplicateRejected ==
    [][\A p \in PluginTypes :
         (kind = "Client" /\ cl.plugins[p] # 0 /\ IsRegisterCall(last', p))
           => /\ last'.exc = "DuplicatePluginError"
              /\ cl'.plugins = cl.plugins
              /\ cl'.widgets = cl.widgets]_vars

C1_Witness ==
    /\ kind = "Client"
    /\ last.op = "register_plugin"
    /\ last.exc = "DuplicatePluginError"
    /\ cl.plugins[last.arg] # 0
    /\ Len(cl.widgets) > 0

MissingDep(p) ==
    IF kind = "Client" THEN ~(Requires(p) \subseteq TypesIn(cl.deps))
    ELSE ~(AmRequires(p) \subseteq TypesIn(am.deps))

\* C2: register_plugin of a plugin whose constructor needs a dependency type
\* that is not in the registry fails with the classified error
\* (PluginDependencyError in Client, RegisterPluginError in AmethystClient),
\* registers none of its widgets and does not add the type to the registry.
C2_MissingDependencyFails ==
    [][\A p \in PluginTypes \cup AmPluginTypes :
         (IsRegisterCall(last', p) /\ MissingDep(p))
           => /\ last'.exc = IF kind = "Client" THEN "PluginDependencyError"
                             ELSE "RegisterPluginError"
              /\ cl'.plugins = cl.plugins
              /\ cl'.widgets = cl.widgets
              /\ cl'.tree = cl.tree
              /\ cl'.wregs = cl.wregs
              /\ am'.tree = am.tree
              /\ am'.events = am.events
              /\ am'.schedules = am.schedules]_vars

\* A plugin was refused for a missing dependency when widgets of another
\* plugin were registered already.
C2_Witness ==
    /\ last.op = "register_plugin"
    /\ last.exc \in {"PluginDependencyError", "RegisterPluginError"}
    /\ \/ kind = "Client" /\ Len(cl.widgets) > 0 /\ last.arg = "Beta"
       \/ kind = "AmethystClient" /\ Len(am.tree) > 0 /\ last.arg = "Store"

\* C3: across any sequence of register_plugin and load_plugins calls,
\* re-entrant ones included, each plugin type is instantiated at most once
\* and the registry maps the type to that single instance.
C3_InstantiatedAtMostOnce ==
    kind = "Client" => \A p \in PluginTypes : cl.made[p] <= 1

TheLibrary == IF kind = "Client" THEN cl.deps ELSE am.deps

\* C11: add_dependency of an object whose type already has a value in the
\* library raises DuplicateDependencyError and leaves the library as it
\* was; the library never holds two values of one type, and no step removes
\* or replaces a value it holds.
C11_OneValuePerType ==
    /\ [](\A v, w \in TheLibrary : v.type = w.type => v = w)
    /\ [][/\ TheLibrary \subseteq TheLibrary'
          /\ (last'.op = "add_dependency" /\ last'.arg.type \in TypesIn(TheLibrary))
               => /\ last'.exc = "DuplicateDependencyError"
                  /\ TheLibrary' = TheLibrary]_vars

\* A second Db object was refused while the library held the first and a
\* Cfg object.
C11_Witness ==
    /\ last.op = "add_dependency"
    /\ last.exc = "DuplicateDependencyError"
    /\ last.arg \notin TheLibrary
    /\ Cardinality(TheLibrary) = 2

Malformed(w) == ParamCount(w) # 3 \/ ~SubjectAnnotated(w)

\* C14: registering a context menu whose callback has not exactly three
\* parameters, or whose last parameter is unannotated, raises ValueError
\* and the command tree never holds a command for it.
C14_MalformedMenuRejected ==
    kind = "Client" =>
      /\ \A i \in 1..Len(cl.tree) : ~Malformed(cl.tree[i])
      /\ (/\ last.op = "register_plugin"
          /\ \E i \in 1..Len(WidgetsOf(last.arg)) :
               Malformed(WidgetsOf(last.arg)[i]))
         => last.exc = "ValueError"

\* Bare was registered: its well-formed menu is in the tree, the menu with
\* the unannotated parameter raised.
C14_Witness ==
    /\ kind = "Client"
    /\ last = Call("register_plugin", "Bare", "ValueError")
    /\ Contains(cl.tree, "pre_menu")

TheModules == IF kind = "Client" THEN cl.modules ELSE am.modules

\* C26: when module discovery meets a plugin type that is already
\* registered, nothing is raised and the registered instance stays; after
\* load_plugins has run on a module list, running it again on the same list
\* leaves the plugin registry and the list of registered widgets as they are.
C26_DiscoveryIsIdempotent ==
    kind = "Client" =>
      /\ \A p \in AllPluginTypes :
           HasPlugin(cl, p) =>
             /\ DiscoverValue(cl, p).exc = "none"
             /\ DiscoverValue(cl, p).plugins = cl.plugins
      /\ last.op = "load_plugins" =>
           LET again == LoadPluginsOp(cl, last.arg, 1) IN
             /\ again.plugins = cl.plugins
             /\ again.widgets = cl.widgets

C26_Witness ==
    /\ kind = "Client"
    /\ last.op = "load_plugins"
    /\ last.exc = "none"
    /\ HasPlugin(cl, "Alpha") /\ HasPlugin(cl, "Beta")
    /\ cl.made["Alpha"] = 1

\* All widget objects of the application's plugin classes.
AllWidgets == UNION {Range(WidgetsOf(p)) : p \in AllPluginTypes}

\* The registrations of widget w the client holds: entries of the command
\* tree, registrations taken by a WidgetPlugin, and loop tasks of schedules.
TreeRegs(st, w)  == {i \in 1..Len(st.tree) : st.tree[i] = w}
ProxyRegs(st, w) == {i \in 1..Len(st.wregs) : st.wregs[i][2] = w}
LoopRegs(st, w)  == {i \in 1..Len(st.sloops) : st.sloops[i].w = w}

\* C27: over any sequence of register_plugin calls on one Client, every
\* widget object is registered at most once, hence with one plugin
\* instance, and the list of registered widgets holds no widget twice, also
\* for a widget that several plugin classes inherit.
C27_WidgetRegisteredOnce ==
    kind = "Client" =>
      /\ \A i, j \in 1..Len(cl.widgets) : cl.widgets[i] = cl.widgets[j] => i = j
      /\ \A w \in AllWidgets :
           /\ Cardinality(TreeRegs(cl, w)) + Cardinality(ProxyRegs(cl, w))
                + Cardinality(LoopRegs(cl, w)) <= 1
           /\ Contains(cl.widgets, w) =>
                Cardinality(TreeRegs(cl, w)) + Cardinality(ProxyRegs(cl, w))
                  + Cardinality(LoopRegs(cl, w)) = 1

C27_Witness ==
    /\ kind = "Client"
    /\ HasPlugin(cl, "Cron") /\ HasPlugin(cl, "Nightly")
    /\ HasPlugin(cl, "Alpha")
    /\ Contains(cl.widgets, "n_menu")
    /\ \E i \in 1..Len(cl.sloops) : cl.sloops[i].w = "c_even"

\* C28: when Client.register_plugin raises, for whatever reason, the plugin
\* registry, the list of registered widgets and the command tree are as
\* they were before the call.
C28_FailedRegistrationChangesNothing ==
    [][(kind = "Client" /\ last'.op = "register_plugin" /\ last'.exc # "none")
         => /\ cl'.plugins = cl.plugins
            /\ cl'.widgets = cl.widgets
            /\ cl'.tree = cl.tree]_vars

\* Every widget object the event table of st holds.
AllHandlers(st) == UNION {Range(st.events[e]) : e \in DOMAIN st.events}

\* The widget objects a step has added to the command tree, the event table
\* or the list of schedules.
NewlyRegistered ==
    (Range(am'.tree) \ Range(am.tree))
      \cup (AllHandlers(am') \ AllHandlers(am))
      \cup (Range(am'.schedules) \ Range(am.schedules))

\* C29: every widget AmethystClient.register_plugin hands to the handler of
\* its type (command, event, schedule) is the copy the new plugin instance
\* holds, which refers to that instance; it is never the class-level
\* descriptor.
C29_HandlersGetBoundCopies ==
    [][(kind = "AmethystClient" /\ last'.op = "register_plugin"
          /\ Len(am'.insts) = Len(am.insts) + 1)
         => LET inst == Len(am'.insts) IN
            \A w \in NewlyRegistered :
              /\ w > Len(DescNames)
              /\ BindingOf(am'.heap, w) = inst
              /\ \E n \in DOMAIN am'.insts[inst].attrs :
                   am'.insts[inst].attrs[n] = w]_vars

C29_Witness ==
    /\ kind = "AmethystClient"
    /\ last = Call("register_plugin", "Greeter", "none")
    /\ Len(am.insts) = 2
    /\ \E i \in 1..Len(am.tree) : BindingOf(am.heap, am.tree[i]) = 2
    /\ \E w \in AllHandlers(am) : BindingOf(am.heap, w) = 2
    /\ \E i \in 1..Len(am.schedules) : BindingOf(am.heap, am.schedules[i]) = 2

\* C32: however often AmethystClient.register_plugin is called for a plugin
\* type, directly or by loading modules again, the client makes one
\* instance of the type, and no event's handler list holds the same
\* callback twice, nor the schedule list the same schedule twice.
C32_PluginRegisteredOnce ==
    kind = "AmethystClient" =>
      /\ \A i, j \in 1..Len(am.insts) : am.insts[i].cls = am.insts[j].cls => i = j
      /\ \A e \in DOMAIN am.events : \A i, j \in 1..Len(am.events[e]) :
           am.heap[am.events[e][i]].cb = am.heap[am.events[e][j]].cb => i = j
      /\ \A i, j \in 1..Len(am.schedules) :
           am.heap[am.schedules[i]].cb = am.heap[am.schedules[j]].cb => i = j

WidgetPluginTypes == {p \in AllPluginTypes : IsWidgetPlugin(p)}

\* C33: a widget of a WidgetPlugin is handed, with its owning plugin, to the
\* registered instance of that WidgetPlugin, which is registered on the way
\* if it was not; the WidgetPlugin is registered once, and so instantiated
\* once, however many of its widgets are registered; module discovery
\* leaves a WidgetPlugin subclass alone.
C33_WidgetPluginRegisteredOnce ==
    kind = "Client" =>
      /\ \A p \in WidgetPluginTypes :
           /\ cl.made[p] <= 1
           /\ DiscoverValue(cl, p) = cl
      /\ \A i \in 1..Len(cl.wregs) :
           /\ cl.wregs[i][1] # 0
           /\ cl.wregs[i][1] = cl.plugins[WidgetPluginOf(cl.wregs[i][2])]
      /\ \A w \in Range(cl.widgets) :
           WidgetPluginOf(w) # "none" =>
             \E i \in 1..Len(cl.wregs) :
               cl.wregs[i][2] = w /\ cl.wregs[i][3] # 0

ObjectsOf(k, c, a) == IF k = "Client" THEN c.objs ELSE a.insts

\* C37: every plugin a client instantiates holds the registering client
\* before the body of its constructor runs, so the body finds it, and the
\* reference never changes afterwards.
C37_ClientSetBeforeConstructor ==
    /\ [](\A i \in 1..Len(ObjectsOf(kind, cl, am)) :
            /\ ObjectsOf(kind, cl, am)[i].client = ThisClient
            /\ ObjectsOf(kind, cl, am)[i].seen = ThisClient)
    /\ [][\A i \in 1..Len(ObjectsOf(kind, cl, am)) :
            /\ i <= Len(ObjectsOf(kind', cl', am'))
            /\ ObjectsOf(kind', cl', am')[i].client = ObjectsOf(kind, cl, am)[i].client]_vars

\* An AmethystClient has instantiated a plugin with a constructor parameter
\* and one without, and both constructors found the client.
C37_Witness ==
    /\ kind = "AmethystClient"
    /\ {am.insts[i].cls : i \in 1..Len(am.insts)} = {"Greeter", "Store"}
    /\ \A i \in 1..Len(am.insts) : am.insts[i].seen = ThisClient

\* C12: module discovery lets no ImportError reach its caller, and when it
\* returns every module of the list that can be imported has been loaded.
C12_ImportErrorSwallowed ==
    last.op \in {"load_plugins", "load"} =>
      /\ last.exc # "ImportError"
      /\ last.exc = "none" =>
           \A i \in 1..Len(last.arg) :
             Importable(last.arg[i]) => last.arg[i] \in TheModules

(* ------------------------------------------------------------------ *)
(* Widget construction (widget/schedule.py, widget/menu.py)            *)
(* ------------------------------------------------------------------ *)

\* The decorated functions of the application: schedules and context menus,
\* some with a defect.  A decorator constructs the widget from the function
\* when the class body or module is executed.
WidgetDecls == {"c_even", "c_min", "three_fields", "bad_minute",
                "a_menu", "b_menu", "pre_menu", "two_params", "bare_menu"}

IsScheduleDecl(w) == w \in {"c_even", "c_min", "three_fields", "bad_minute"}

\* The cron expression given to the schedule decorator, field by field.
CronText(w) ==
    CASE w = "c_even"       -> <<"*/2", "*", "*", "*", "*">>
      [] w = "three_fields" -> <<"*", "*", "*">>
      [] w = "bad_minute"   -> <<"61", "*", "*", "*", "*">>
      [] OTHER              -> <<"*", "*", "*", "*", "*">>

\* croniter(cron) succeeds: five or six fields, each within its range.
CroniterAccepts(fields) ==
    /\ Len(fields) \in {5, 6}
    /\ \A i \in 1..Len(fields) : fields[i] \in {"*", "*/2", "0"}

\* ScheduleWidget.__init__
ScheduleWidgetInit(st, w) ==
    IF ~CroniterAccepts(CronText(w)) THEN Raise(st, "TypeError")
    ELSE [st EXCEPT !.objects = @ \cup {w}]

\* ContextMenuWidget.__init__: stores callback, name and nsfw.
ContextMenuWidgetInit(st, w) == [st EXCEPT !.objects = @ \cup {w}]

\* A decorator is applied to a function.
Decorate(w) ==
    /\ kind = "Client"
    /\ LET r == IF IsScheduleDecl(w) THEN ScheduleWidgetInit(cl, w)
                ELSE ContextMenuWidgetInit(cl, w)
       IN  /\ cl' = Done(r)
           /\ last' = Call("decorate", w, r.exc)
    /\ UNCHANGED <<kind, net, am, run, now>>

InitDecl ==
    /\ kind = "Client"
    /\ cl = ClientInit
    /\ am = AmInit
    /\ run = RunInit
    /\ net = <<>>
    /\ now = 0
    /\ last = NoCall

NextDecl == \E w \in WidgetDecls : Decorate(w)

SpecDecl == InitDecl /\ [][NextDecl]_vars

Defective(w) ==
    IF IsScheduleDecl(w) THEN ~CroniterAccepts(CronText(w)) ELSE Malformed(w)

\* C15: constructing a widget from a function with a configuration defect
\* (invalid cron expression, malformed context-menu signature) raises, so
\* no widget object with such a defect exists.
C15_NoDefectiveWidgetExists ==
    /\ \A w \in cl.objects : ~Defective(w)
    /\ (last.op = "decorate" /\ Defective(last.arg)) => last.exc # "none"

(* ------------------------------------------------------------------ *)
(* Specification of plugin construction                                *)
(* ------------------------------------------------------------------ *)

\* cls(): a plugin is constructed outside any client.
Construct(c) ==
    /\ kind = "AmethystClient"
    /\ Len(am.insts) < MaxInst
    /\ am' = [NewPlugin(am, c) EXCEPT
                 !.insts[Len(am.insts) + 1] = ConstructorBody(@)]
    /\ last' = Call("construct", c, "none")
    /\ UNCHANGED <<kind, net, cl, run, now>>

InitBind ==
    /\ kind \in {"Client", "AmethystClient"}
    /\ cl = ClientInit
    /\ am = AmInit
    /\ run = RunInit
    /\ net = <<>>
    /\ now = 0
    /\ last = NoCall

\* widget.invoke(*args) on a CallbackWidget: a class-level descriptor, a
\* widget declared outside any plugin, or the bound copy of an instance.
Invoke(w, args) ==
    /\ kind = "AmethystClient"
    /\ w \in 1..Len(am.heap)
    /\ InitBinding(am.heap[w].cb) = 0
    /\ LET r == WidgetInvoke(am.heap, w, args) IN
         run' = [run EXCEPT !.calls = <<[cb |-> r.cb, params |-> r.params]>>,
                            !.ret = r.ret]
    /\ last' = Call("invoke", [widget |-> w, args |-> args], "none")
    /\ UNCHANGED <<kind, net, cl, am, now>>

\* widget.bound(plugin)(*args) on a widget of the Client generation.
CallBound(w, plugin, args) ==
    /\ kind = "Client"
    /\ LET r == BaseWidgetBound(w, plugin, args) IN
         run' = [run EXCEPT !.calls = <<[cb |-> r.cb, params |-> r.params]>>,
                            !.ret = r.ret]
    /\ last' = Call("bound", [widget |-> w, plugin |-> plugin, args |-> args],
                    "none")
    /\ UNCHANGED <<kind, net, cl, am, now>>

NextBind ==
    \/ \E c \in BindClasses : Construct(c)
    \/ \E w \in 1..(Len(DescNames) + 3 * MaxInst), args \in ArgLists :
         Invoke(w, args)
    \/ \E p \in PluginTypes : \E i \in 1..Len(WidgetsOf(p)) :
         \E plugin \in 1..MaxInst, args \in ArgLists :
           CallBound(WidgetsOf(p)[i], plugin, args)

SpecBind == InitBind /\ [][NextBind]_vars

\* C4: after constructing any number of plugin instances, every widget
\* attribute of an instance is a copy (not the class-level descriptor, and
\* not an object another instance holds) whose binding is that instance.
C4_BoundToOwnInstance ==
    \A i \in 1..Len(am.insts) :
      /\ DOMAIN am.insts[i].attrs = Range(ClassWidgets(am.insts[i].cls))
      /\ \A n \in DOMAIN am.insts[i].attrs :
           LET w == am.insts[i].attrs[n] IN
             /\ w > Len(DescNames)
             /\ BindingOf(am.heap, w) = i
             /\ am.heap[w].cb = n
             /\ \A j \in 1..Len(am.insts) : \A m \in DOMAIN am.insts[j].attrs :
                  am.insts[j].attrs[m] = w => (j = i /\ m = n)

\* The instance that holds widget object w as an attribute, 0 when none.
OwnerOf(w) ==
    IF \E i \in 1..Len(am.insts) : \E n \in DOMAIN am.insts[i].attrs :
         am.insts[i].attrs[n] = w
    THEN CHOOSE i \in 1..Len(am.insts) : \E n \in DOMAIN am.insts[i].attrs :
           am.insts[i].attrs[n] = w
    ELSE 0

\* C13: invoking the widget an instance holds calls the callback once with
\* that instance followed by the caller's arguments; invoking a widget no
\* instance holds calls it with the caller's arguments only; the value
\* returned is the callback's.  The function BaseWidget.bound returns calls
\* the callback with the plugin followed by the arguments.
C13_InvokePassesBinding ==
    /\ last.op = "invoke" =>
         LET w == last.arg.widget
             params == IF OwnerOf(w) # 0
                       THEN <<PluginObject(OwnerOf(w))>> \o last.arg.args
                       ELSE last.arg.args
         IN  /\ run.calls = <<[cb |-> am.heap[w].cb, params |-> params]>>
             /\ run.ret = [of |-> am.heap[w].cb, for |-> params]
    /\ last.op = "bound" =>
         LET params == <<PluginObject(last.arg.plugin)>> \o last.arg.args IN
             /\ run.calls = <<[cb |-> last.arg.widget, params |-> params]>>
             /\ run.ret = [of |-> last.arg.widget, for |-> params]

\* The bound copy the second instance holds was invoked with two arguments.
C13_Witness ==
    /\ last.op = "invoke"
    /\ OwnerOf(last.arg.widget) = 2
    /\ Len(last.arg.args) = 2
    /\ Len(run.calls[1].params) = 3

\* C30: binding a widget to a plugin instance leaves the class-level
\* descriptor as it was, with its binding None, and the copy the instance
\* holds has the callback and every other attribute of the descriptor; it
\* differs from the descriptor in the binding only.
C30_DescriptorStaysUnbound ==
    \A i \in 1..Len(am.insts) : \A n \in DOMAIN am.insts[i].attrs :
      LET d == DescId(n)
          w == am.insts[i].attrs[n]
      IN  /\ am.heap[d] = HeapInit[d]
          /\ am.heap[d].binding = 0
          /\ am.heap[d].cmdBinding = 0
          /\ [am.heap[w] EXCEPT !.binding = 0, !.cmdBinding = 0] = am.heap[d]

\* Two instances of one class and an instance of another class exist.
C4_Witness ==
    /\ \E i, j \in 1..Len(am.insts) :
         i # j /\ am.insts[i].cls = am.insts[j].cls /\ am.insts[i].cls = "Greeter"
    /\ \E i \in 1..Len(am.insts) : am.insts[i].cls = "Legacy"
    /\ \E i \in 1..Len(am.insts) : am.insts[i].cls = "Store"

(* ------------------------------------------------------------------ *)
(* AmethystClient (client.py): events                                  *)
(* ------------------------------------------------------------------ *)

\* Handlers registered for one event.
MaxHandlers == 3

\* Handlers declared outside any plugin (client.event, or register_event
\* called with an AmethystEventHandler).
FreeHandlers == {"m_ok", "m_bad", "s_a", "s_b", "s_bad", "r_ok", "u_ok"}

\* self._events.get(event, [])
HandlersOf(st, e) == IF e \in DOMAIN st.events THEN st.events[e] ELSE <<>>

Raises(st, h) == HandlerRaises(st.heap[h].cb)

RECURSIVE CallInOrder(_, _, _)
\* for handler in handlers: handler.invoke(*args, **kwargs).  An exception
\* of a handler leaves the loop.
CallInOrder(st, hs, i) ==
    IF i > Len(hs) THEN <<>>
    ELSE IF Raises(st, hs[i]) THEN <<hs[i]>>
    ELSE <<hs[i]>> \o CallInOrder(st, hs, i + 1)

RegisterEvent(h) ==
    /\ kind = "AmethystClient"
    /\ LET id == DescId(h) IN
         /\ ~Contains(HandlersOf(am, EventOf(h)), id)
         /\ Len(HandlersOf(am, EventOf(h))) < MaxHandlers
         /\ am' = RegisterEventOp(am, id)
    /\ last' = Call("register_event", h, "none")
    /\ UNCHANGED <<kind, net, cl, run, now>>

\* Names of the functions an application decorates with client.event.
CoroNames == {"on_message", "on_ready", "on_mesage"}

\* hasattr(events, name) and isinstance(getattr(events, name), AmethystEvent)
LibraryHas(name) == IsDiscordPyEvent(name)

\* AmethystEventHandler.__init__(self, callback, event), by position.
EventHandlerInit(first, second) == [callback |-> first, event |-> second]

\* AmethystClient.event followed by the register_event it calls.  The
\* handler is built as AmethystEventHandler(event, coro); register_event
\* reads handler.callback.__name__ and handler.event.name for its log line
\* before it touches self._events.
ClientEventOp(st, f) ==
    IF ~LibraryHas(f) THEN Raise(st, "TypeError")
    ELSE LET handler == EventHandlerInit([obj |-> "AmethystEvent", name |-> f],
                                         [obj |-> "function", name |-> f])
         IN  IF handler.callback.obj # "function"
             THEN Raise(st, "AttributeError")
             ELSE IF handler.event.obj # "AmethystEvent"
             THEN Raise(st, "AttributeError")
             ELSE RegisterEventOp(
                    [st EXCEPT !.heap = Append(@, [cb |-> handler.callback.name,
                                                   binding |-> 0, cmdBinding |-> 0])],
                    Len(st.heap) + 1)

ClientEvent(f) ==
    /\ kind = "AmethystClient"
    /\ Len(HandlersOf(am, f)) < MaxHandlers
    /\ LET r == ClientEventOp(am, f) IN
         /\ am' = Done(IF Ok(r) THEN r ELSE Raise(am, r.exc))
         /\ last' = Call("event", f, r.exc)
    /\ UNCHANGED <<kind, net, cl, run, now>>

\* invoke_event of an event that is no coroutine.
InvokeSync(e) ==
    /\ kind = "AmethystClient"
    /\ ~IsCoroutine(e)
    /\ LET called == CallInOrder(am, HandlersOf(am, e), 1) IN
         /\ run' = [run EXCEPT !.calls = called]
         /\ last' = Call("invoke_event", e,
                         IF \E i \in 1..Len(called) : Raises(am, called[i])
                         THEN "HandlerError" ELSE "none")
    /\ UNCHANGED <<kind, net, cl, am, now>>

StartGatherTwice(r, hs) ==
    [r EXCEPT !.tasks = [i \in 1..Len(hs \o hs) |->
                           [h |-> (hs \o hs)[i], st |-> "pending"]],
              !.gather = IF Len(hs) = 0 THEN "returned" ELSE "pending"]

\* asyncio.gather over the handlers' coroutines.
StartGather(r, hs) ==
    [r EXCEPT !.tasks = [i \in 1..Len(hs) |-> [h |-> hs[i], st |-> "pending"]],
              !.gather = IF Len(hs) = 0 THEN "returned" ELSE "pending"]

AllFinished(ts) == \A i \in 1..Len(ts) : ts[i].st # "pending"

\* await invoke_event(e) of a coroutine event: asyncio.gather wraps every
\* handler's coroutine in a task; the caller waits for the gathered result.
InvokeAsync(e) ==
    /\ kind = "AmethystClient"
    /\ IsCoroutine(e)
    /\ run.gather # "pending"
    /\ AllFinished(run.tasks)
    /\ run' = StartGather(run, HandlersOf(am, e))
    /\ last' = Call("invoke_event", e, "none")
    /\ UNCHANGED <<kind, net, cl, am, now>>

\* What the future of asyncio.gather (return_exceptions left False) holds
\* once task i has finished: the first exception is set on it at once, the
\* list of results when the last task is done.
GatherAfter(g, ts) ==
    IF g # "pending" THEN g
    ELSE IF \E i \in 1..Len(ts) : ts[i].st = "raised" THEN "raised"
    ELSE IF AllFinished(ts) THEN "returned"
    ELSE "pending"

\* One handler task runs its callback to the end, or to its exception.
TaskRun(i) ==
    /\ kind = "AmethystClient"
    /\ i \in 1..Len(run.tasks)
    /\ run.tasks[i].st = "pending"
    /\ LET ts == [run.tasks EXCEPT ![i].st =
                    IF Raises(am, run.tasks[i].h) THEN "raised" ELSE "done"]
       IN  run' = [run EXCEPT !.tasks = ts, !.gather = GatherAfter(run.gather, ts)]
    /\ UNCHANGED <<kind, net, cl, am, now, last>>

(* ------------------------------------------------------------------ *)
(* Cron schedules: the clock and croniter                              *)
(* ------------------------------------------------------------------ *)

\* The last second of the clock.
MaxTime == 65

\* The application and the gateway act on the client at the seconds that
\* are multiples of EnvStep.
EnvStep == 20

EnvTime == now % EnvStep = 0

\* Cron loop tasks of one AmethystClient.
MaxLoops == 2

\* Seconds a sleep may last longer than it was asked to.
MaxLate == 1

\* A cron expression of five fields matches whole minutes.
Minute == 60

\* _schedule_delay_cutoff
ScheduleDelayCutoff == 30

\* _min_step
MinStep == 30

\* await asyncio.sleep(1) after the schedules have been invoked.
PostFireSleep == 1

\* The minute field of the schedule's cron expression: "*/2 * * * *" for
\* even and c_even, "* * * * *" for the others.
CronMinutes(n) ==
    IF n \in {"even", "c_even"} THEN {m \in 0..59 : m % 2 = 0} ELSE 0..59

Matches(n, u) == u % Minute = 0 /\ ((u \div Minute) % 60) \in CronMinutes(n)

RECURSIVE GetNext(_, _)
\* croniter.get_next: the first matching minute from candidate u on.
GetNext(n, u) == IF Matches(n, u) THEN u ELSE GetNext(n, u + Minute)

NextOccurrenceInclusive(n, t) ==
    GetNext(n, ((t + Minute - 1) \div Minute) * Minute)

\* next_occurrence called at time t: croniter(cron, now).get_next(datetime)
\* starts from the first whole minute after t.
NextOccurrence(n, t) == GetNext(n, (t \div Minute + 1) * Minute)

\* asyncio.sleep(delay / 2), observed on a clock of whole seconds.
Half(d) == (d + 1) \div 2

MinOf(S) == CHOOSE x \in S : \A y \in S : x <= y

(* ------------------------------------------------------------------ *)
(* AmethystClient (client.py): the cron loop                           *)
(* ------------------------------------------------------------------ *)

\* Schedules declared outside any plugin.
FreeSchedules == {"tock", "tack", "even"}

FireAll(map, next) == DOMAIN map

\* [s for s, d in schedule_map.items() if d == next_datetime]
FireSet(map, next) == {s \in DOMAIN map : map[s] = next}

ScheduleLoopSleepShort(st, i, t) ==
    LET delay == st.loops[i].next - t IN
    [st EXCEPT !.loops[i].pc = "sleep",
               !.loops[i].final = delay <= ScheduleDelayCutoff,
               !.loops[i].wake = t + (IF delay > 0 THEN Half(delay) ELSE 0),
               !.loops[i].task = "pending",
               !.sleep = i]

ScheduleLoopSleepWhole(st, i, t) ==
    [st EXCEPT !.loops[i].pc = "sleep",
               !.loops[i].final = TRUE,
               !.loops[i].wake = IF st.loops[i].next > t THEN st.loops[i].next
                                 ELSE t,
               !.loops[i].task = "pending",
               !.sleep = i]

\* One turn of the inner loop of _schedule_loop up to its await: the delay,
\* final, and the new sleep task stored in self._schedule_sleep_task.
ScheduleLoopSleep(st, i, t) ==
    LET delay == st.loops[i].next - t
        final == delay <= ScheduleDelayCutoff
        d     == IF final THEN delay ELSE Half(delay)
    IN  [st EXCEPT !.loops[i].pc = "sleep",
                   !.loops[i].final = final,
                   !.loops[i].wake = t + (IF d > 0 THEN d ELSE 0),
                   !.loops[i].task = "pending",
                   !.sleep = i]

ScheduleLoopTopUnchecked(st, i, t) ==
    LET map == [s \in Range(st.schedules) |-> NextOccurrence(st.heap[s].cb, t)]
    IN  ScheduleLoopSleep(
          [st EXCEPT !.loops[i].map = map,
                     !.loops[i].next = MinOf({map[s] : s \in DOMAIN map}),
                     !.loops[i].began = t],
          i, t)

\* The head of the outer loop of _schedule_loop: is_closed, schedule_map,
\* next_datetime (min of an empty sequence raises ValueError), then the
\* first turn of the inner loop.
ScheduleLoopTop(st, i, t) ==
    IF st.closed THEN [st EXCEPT !.loops[i].pc = "ended"]
    ELSE IF st.schedules = <<>> THEN [st EXCEPT !.loops[i].pc = "crashed"]
    ELSE LET map == [s \in Range(st.schedules) |->
                       NextOccurrence(st.heap[s].cb, t)]
         IN  ScheduleLoopSleep(
               [st EXCEPT !.loops[i].map = map,
                          !.loops[i].next = MinOf({map[s] : s \in DOMAIN map}),
                          !.loops[i].began = t],
               i, t)

OnReadyOpUnguarded(st) ==
    IF st.sleep = 0
    THEN [st EXCEPT !.loops = Append(@, NewLoop("on_ready")), !.onready = FALSE]
    ELSE [st EXCEPT !.onready = FALSE]

\* AmethystClient.on_ready, up to its invoke_event.
OnReadyOp(st) ==
    IF st.sleep = 0 /\ Len(st.schedules) > 0
    THEN [st EXCEPT !.loops = Append(@, NewLoop("on_ready")), !.onready = FALSE]
    ELSE [st EXCEPT !.onready = FALSE]

RegisterSchedule(n) ==
    /\ kind = "AmethystClient"
    /\ EnvTime
    /\ ~Contains(am.schedules, DescId(n))
    /\ LET r == RegisterScheduleOp(am, DescId(n)) IN
         /\ Len(r.loops) <= MaxLoops
         /\ am' = r
    /\ last' = Call("register_schedule", n, "none")
    /\ UNCHANGED <<kind, net, cl, run, now>>

\* The gateway's READY: the ready event is set and on_ready is dispatched.
ReadySignal ==
    /\ kind = "AmethystClient"
    /\ EnvTime
    /\ ~am.closed
    /\ ~am.onready
    /\ am' = [am EXCEPT !.ready = TRUE, !.onready = TRUE]
    /\ UNCHANGED <<kind, net, cl, run, now, last>>

OnReady ==
    /\ kind = "AmethystClient"
    /\ am.onready
    /\ "on_ready" \notin am.attrs
    /\ AllFinished(run.tasks)
    /\ LET r == OnReadyOp(am) IN
         /\ Len(r.loops) <= MaxLoops
         /\ am' = r
    /\ run' = StartGather(run, HandlersOf(am, "on_ready"))
    /\ UNCHANGED <<kind, net, cl, now, last>>

AmClose ==
    /\ kind = "AmethystClient"
    /\ EnvTime
    /\ ~am.closed
    /\ am' = [am EXCEPT !.closed = TRUE]
    /\ UNCHANGED <<kind, net, cl, run, now, last>>

\* The loop task runs for the first time.
LoopStart(i) ==
    /\ kind = "AmethystClient"
    /\ i \in 1..Len(am.loops)
    /\ am.loops[i].pc = "new"
    /\ am' = ScheduleLoopTop(am, i, now)
    /\ UNCHANGED <<kind, net, cl, run, now, last>>

\* The sleep task has finished: the schedules are invoked after the final
\* sleep, the delay is taken again after any other.
LoopWake(i) ==
    /\ kind = "AmethystClient"
    /\ i \in 1..Len(am.loops)
    /\ am.loops[i].pc = "sleep"
    /\ am.loops[i].task = "pending"
    /\ now >= am.loops[i].wake
    /\ IF am.loops[i].final
       THEN /\ run' = [run EXCEPT !.fired = @ \cup {
                         [loop  |-> i,
                          at    |-> now,
                          began |-> am.loops[i].began,
                          map   |-> am.loops[i].map,
                          next  |-> am.loops[i].next,
                          set   |-> FireSet(am.loops[i].map, am.loops[i].next),
                          ready |-> am.ready]}]
            /\ am' = [am EXCEPT !.loops[i].pc = "post",
                                !.loops[i].task = "done",
                                !.loops[i].wake = now + PostFireSleep]
       ELSE /\ am' = ScheduleLoopSleep(am, i, now)
            /\ run' = run
    /\ UNCHANGED <<kind, net, cl, now, last>>

\* CancelledError reaches the loop at its await: break, and the outer loop
\* starts over.
LoopCancelled(i) ==
    /\ kind = "AmethystClient"
    /\ i \in 1..Len(am.loops)
    /\ am.loops[i].pc = "sleep"
    /\ am.loops[i].task = "cancelling"
    /\ am' = ScheduleLoopTop([am EXCEPT !.loops[i].task = "cancelled"], i, now)
    /\ UNCHANGED <<kind, net, cl, run, now, last>>

\* The sleep of one second after the invocation is over.
LoopPost(i) ==
    /\ kind = "AmethystClient"
    /\ i \in 1..Len(am.loops)
    /\ am.loops[i].pc = "post"
    /\ now >= am.loops[i].wake
    /\ am' = ScheduleLoopTop(am, i, now)
    /\ UNCHANGED <<kind, net, cl, run, now, last>>

(* ------------------------------------------------------------------ *)
(* Specification of the events                                         *)
(* ------------------------------------------------------------------ *)

\* Events the gateway client dispatches by looking up the attribute named
\* after the event on the client object.
GatewayEvents == {"on_ready", "on_message"}

\* Client.dispatch of the gateway client finds an attribute that
\* register_event installed: the dispatcher forwards to invoke_event.  An
\* instance attribute is found before a method of the class.
GatewayEvent(e) ==
    /\ kind = "AmethystClient"
    /\ e \in am.attrs
    /\ e = "on_ready" => am.onready
    /\ run.gather # "pending"
    /\ AllFinished(run.tasks)
    /\ am' = IF e = "on_ready" THEN [am EXCEPT !.onready = FALSE] ELSE am
    /\ run' = StartGather(run, HandlersOf(am, e))
    /\ last' = Call("dispatch", e, "none")
    /\ UNCHANGED <<kind, net, cl, now>>

\* AmethystClient.setup_hook, which the gateway client awaits once at login.
AmSetupHook ==
    /\ kind = "AmethystClient"
    /\ ~am.setup
    /\ AllFinished(run.tasks)
    /\ am' = [am EXCEPT !.setup = TRUE]
    /\ run' = StartGather(run, HandlersOf(am, "on_setup_hook"))
    /\ last' = Call("setup_hook", "none", "none")
    /\ UNCHANGED <<kind, net, cl, now>>

InitEvent ==
    /\ kind = "AmethystClient"
    /\ cl = ClientInit
    /\ am = AmInit
    /\ run = RunInit
    /\ net = <<>>
    /\ now = 0
    /\ last = NoCall

NextEvent ==
    \/ \E h \in FreeHandlers : RegisterEvent(h)
    \/ \E f \in CoroNames : ClientEvent(f)
    \/ \E e \in Events : InvokeSync(e)
    \/ \E e \in Events : InvokeAsync(e)
    \/ \E i \in 1..MaxHandlers : TaskRun(i)
    \/ \E e \in GatewayEvents : GatewayEvent(e)
    \/ AmSetupHook
    \/ ReadySignal
    \/ OnReady

SpecEvent == InitEvent /\ [][NextEvent]_vars

\* C5: when an event with asynchronous handlers is invoked and a handler
\* raises, no other handler is kept from running and the error does not
\* reach the code that awaits the invocation.
C5_HandlerErrorIsolated ==
    /\ \A i \in 1..Len(run.tasks) : run.tasks[i].st # "cancelled"
    /\ run.gather # "raised"

\* C8: invoke_event of a synchronous event calls every registered handler
\* exactly once, in the order of registration.
C8_SyncHandlersAllCalledInOrder ==
    (last.op = "invoke_event" /\ ~IsCoroutine(last.arg))
      => run.calls = HandlersOf(am, last.arg)

\* C17: client.event(coro) registers coro as a handler of the library event
\* named like the function, and raises TypeError when the library has no
\* event of that name.
C17_EventRegistersByName ==
    last.op = "event" =>
      IF LibraryHas(last.arg)
      THEN /\ last.exc = "none"
           /\ \E i \in 1..Len(HandlersOf(am, last.arg)) :
                am.heap[HandlersOf(am, last.arg)[i]].cb = last.arg
      ELSE last.exc = "TypeError"

\* The handlers of the tasks asyncio.gather holds, in order.
TaskHandlers(r) == [i \in 1..Len(r.tasks) |-> r.tasks[i].h]

\* C24: the first handler register_event takes for a builtin gateway event
\* installs on the client a dispatcher attribute named after the event,
\* unless the client already has an attribute of that name, which is never
\* overwritten; the dispatcher forwards to invoke_event of that event; a
\* later registration for the event only appends to its handler list.
C24_FirstHandlerInstallsDispatcher ==
    /\ [](am.attrs \cap ClassAttrs = {})
    /\ [][(last'.op = "dispatch" /\ am' = am /\ run'.tasks # run.tasks
             /\ \A i \in 1..Len(run'.tasks) : run'.tasks[i].st = "pending")
           => TaskHandlers(run') = HandlersOf(am, last'.arg)]_vars
    /\ [][\A h \in FreeHandlers :
            (last' = Call("register_event", h, "none") /\ last' # last) =>
              LET e == EventOf(h) IN
                /\ HandlersOf(am', e) = Append(HandlersOf(am, e), DescId(h))
                /\ \A x \in Events \ {e} : HandlersOf(am', x) = HandlersOf(am, x)
                /\ am'.attrs = IF /\ HandlersOf(am, e) = <<>>
                                  /\ IsDiscordPyEvent(e)
                                  /\ e \notin ClassAttrs
                               THEN am.attrs \cup {e} ELSE am.attrs]_vars

C24_Witness ==
    /\ last.op = "dispatch"
    /\ Len(run.tasks) = 2
    /\ "on_setup_hook" \in am.attrs
    /\ HandlersOf(am, "on_ready") # <<>>
    /\ HandlersOf(am, "saved") # <<>>

\* The tasks of r are one pending task per handler of hs, in order.
StartedOnce(r, hs) ==
    /\ TaskHandlers(r) = hs
    /\ \A i \in 1..Len(r.tasks) : r.tasks[i].st = "pending"

\* C25: one on_ready callback starts every handler subscribed to on_ready
\* exactly once, and one setup_hook callback every handler subscribed to
\* on_setup_hook exactly once; neither event is also delivered through a
\* dispatcher attribute that register_event installed.
C25_LifecycleHandlersOnce ==
    /\ [][(am.onready /\ ~am'.onready)
             => StartedOnce(run', HandlersOf(am, "on_ready"))]_vars
    /\ [][(~am.setup /\ am'.setup)
             => StartedOnce(run', HandlersOf(am, "on_setup_hook"))]_vars
    /\ [](last.op = "dispatch" => last.arg \notin {"on_ready", "on_setup_hook"})

C25_Witness ==
    /\ am.setup
    /\ am.ready /\ ~am.onready
    /\ "on_setup_hook" \in am.attrs
    /\ Len(run.tasks) = 1
    /\ TaskHandlers(run) = HandlersOf(am, "on_ready")
    /\ run.tasks[1].st = "done"

(* ------------------------------------------------------------------ *)
(* ScheduleWidget (widget/schedule.py): one loop per widget            *)
(* ------------------------------------------------------------------ *)

\* One turn of wait_until's loop, or its last sleep.
WaitUntil(st, i, t) ==
    LET delay == st.sloops[i].when - t IN
    IF delay <= MinStep
    THEN [st EXCEPT !.sloops[i].pc = "final",
                    !.sloops[i].wake = t + (IF delay > 0 THEN delay ELSE 0)]
    ELSE [st EXCEPT !.sloops[i].pc = "half",
                    !.sloops[i].wake = t + Half(delay)]

\* while not client.is_closed(): await wait_until(self.next_occurrence())
WidgetLoopTop(st, i, t) ==
    IF st.closed THEN [st EXCEPT !.sloops[i].pc = "ended"]
    ELSE WaitUntil([st EXCEPT !.sloops[i].when = NextOccurrence(st.sloops[i].w, t),
                              !.sloops[i].began = t],
                   i, t)

\* Client.setup_hook: the pending tasks are handed to the event loop in the
\* order of the list, and the list is dropped.
SetupHook ==
    /\ kind = "Client"
    /\ EnvTime
    /\ ~cl.setup
    /\ cl' = [cl EXCEPT
                !.sloops = [i \in DOMAIN @ |->
                              IF @[i].pc = "queued"
                              THEN [@[i] EXCEPT !.pc = "new"] ELSE @[i]],
                !.listeners = [i \in DOMAIN @ |-> [@[i] EXCEPT !.live = TRUE]],
                !.started = @ \o cl.tasks,
                !.tasks = <<>>,
                !.setup = TRUE]
    /\ UNCHANGED <<kind, net, am, run, now, last>>

\* The gateway's READY; Client.on_ready writes a log line only.
ClientReady ==
    /\ kind = "Client"
    /\ EnvTime
    /\ cl.setup
    /\ ~cl.closed
    /\ ~cl.ready
    /\ cl' = [cl EXCEPT !.ready = TRUE]
    /\ UNCHANGED <<kind, net, am, run, now, last>>

ClientClose ==
    /\ kind = "Client"
    /\ EnvTime
    /\ ~cl.closed
    /\ cl' = [cl EXCEPT !.closed = TRUE]
    /\ UNCHANGED <<kind, net, am, run, now, last>>

WidgetLoopStart(i) ==
    /\ kind = "Client"
    /\ i \in 1..Len(cl.sloops)
    /\ cl.sloops[i].pc = "new"
    /\ cl' = WidgetLoopTop(cl, i, now)
    /\ UNCHANGED <<kind, net, am, run, now, last>>

\* A sleep of wait_until is over; after the last one the callback is handed
\* to create_task when the client is ready, the occurrence skipped when not.
WidgetLoopWake(i) ==
    /\ kind = "Client"
    /\ i \in 1..Len(cl.sloops)
    /\ cl.sloops[i].pc \in {"half", "final"}
    /\ now >= cl.sloops[i].wake
    /\ IF cl.sloops[i].pc = "half"
       THEN /\ cl' = WaitUntil(cl, i, now)
            /\ run' = run
       ELSE LET occ == [loop  |-> i,
                        at    |-> now,
                        began |-> cl.sloops[i].began,
                        map   |-> EmptyMap,
                        next  |-> cl.sloops[i].when,
                        set   |-> {cl.sloops[i].w},
                        ready |-> cl.ready]
            IN  /\ run' = IF cl.ready
                          THEN [run EXCEPT !.fired = @ \cup {occ}]
                          ELSE [run EXCEPT !.skipped = @ \cup {occ}]
                /\ cl' = WidgetLoopTop(cl, i, now)
    /\ UNCHANGED <<kind, net, am, now, last>>

(* ------------------------------------------------------------------ *)
(* Specification of the schedules                                      *)
(* ------------------------------------------------------------------ *)

\* Something the event loop runs before it lets time pass: a callback that
\* is ready to run, or a sleep that is MaxLate seconds over its time.
Urgent ==
    IF kind = "AmethystClient"
    THEN \/ am.onready
         \/ \E i \in 1..Len(am.loops) :
              \/ am.loops[i].pc = "new"
              \/ am.loops[i].pc = "sleep" /\ am.loops[i].task = "cancelling"
              \/ /\ am.loops[i].pc \in {"sleep", "post"}
                 /\ now >= am.loops[i].wake + MaxLate
    ELSE \E i \in 1..Len(cl.sloops) :
              \/ cl.sloops[i].pc = "new"
              \/ /\ cl.sloops[i].pc \in {"half", "final"}
                 /\ now >= cl.sloops[i].wake + MaxLate

Tick ==
    /\ now < MaxTime
    /\ ~Urgent
    /\ now' = now + 1
    /\ UNCHANGED <<kind, net, cl, am, run, last>>

InitCron ==
    /\ kind \in {"Client", "AmethystClient"}
    /\ cl = ClientInit
    /\ am = AmInit
    /\ run = RunInit
    /\ net = <<>>
    /\ now = 0
    /\ last = NoCall

NextCron ==
    \/ \E n \in FreeSchedules : RegisterSchedule(n)
    \/ ReadySignal
    \/ OnReady
    \/ AmClose
    \/ \E i \in 1..MaxLoops : LoopStart(i)
    \/ \E i \in 1..MaxLoops : LoopWake(i)
    \/ \E i \in 1..MaxLoops : LoopCancelled(i)
    \/ \E i \in 1..MaxLoops : LoopPost(i)
    \/ RegisterPlugin("Cron")
    \/ SetupHook
    \/ ClientReady
    \/ ClientClose
    \/ \E i \in 1..Len(cl.sloops) : WidgetLoopStart(i)
    \/ \E i \in 1..Len(cl.sloops) : WidgetLoopWake(i)
    \/ Tick

SpecCron == InitCron /\ [][NextCron]_vars

(* ------------------------------------------------------------------ *)
(* Claims about the schedules                                          *)
(* ------------------------------------------------------------------ *)

\* The next occurrence of schedule s, taken anew at the time the cycle of
\* invocation f began.
OccurrenceAt(f, s) == NextOccurrence(am.heap[s].cb, f.began)

\* C6: in every cycle of the cron loop the schedules invoked are those
\* whose next occurrence is the earliest one among the schedules the cycle
\* began with: each of them is started by the one invocation step, and no
\* schedule with a later occurrence is.
C6_EarliestAllAndOnly ==
    kind = "AmethystClient" =>
      \A f \in run.fired :
        LET earliest == MinOf({OccurrenceAt(f, s) : s \in DOMAIN f.map})
        IN  /\ f.set \subseteq DOMAIN f.map
            /\ \A s \in DOMAIN f.map :
                 s \in f.set <=> OccurrenceAt(f, s) = earliest

\* A cycle invoked two schedules together and left out a third, whose
\* occurrence is later.
C6_Witness ==
    /\ kind = "AmethystClient"
    /\ \E f \in run.fired :
         /\ Cardinality(f.set) = 2
         /\ Cardinality(DOMAIN f.map) = 3

\* C7: a schedule callback is invoked only once the client has signalled
\* readiness: an AmethystClient has no cron loop before its ready signal, and
\* an occurrence that a ScheduleWidget's loop finds due while the client is
\* not ready is skipped.
C7_NoInvocationBeforeReady ==
    /\ \A f \in run.fired : f.ready
    /\ \A f \in run.skipped : ~f.ready
    /\ (kind = "AmethystClient" /\ am.loops # <<>>) => am.ready

\* A schedule registered before the ready signal was invoked by the loop
\* that on_ready started.
C7_Witness ==
    /\ kind = "AmethystClient"
    /\ \E f \in run.fired : am.loops[f.loop].by = "on_ready"

CronNames == FreeSchedules \cup {"tick", "c_even", "c_min"}

\* C10: next_occurrence returns an instant strictly later than the time of
\* the call, and a call at a later time returns no earlier instant.
C10_NextOccurrenceLater ==
    /\ [](\A n \in CronNames : NextOccurrence(n, now) > now)
    /\ [](\A i \in 1..Len(am.loops) : \A s \in DOMAIN am.loops[i].map :
            am.loops[i].map[s] > am.loops[i].began)
    /\ [](\A i \in 1..Len(cl.sloops) :
            cl.sloops[i].pc \in {"half", "final"}
              => cl.sloops[i].when > cl.sloops[i].began)
    /\ [][\A n \in CronNames :
            now' >= now => NextOccurrence(n, now') >= NextOccurrence(n, now)]_vars

\* next_occurrence was called at the very instant of an occurrence and
\* returned the one after it.
C10_Witness ==
    /\ kind = "AmethystClient"
    /\ \E i \in 1..Len(am.loops) :
         /\ am.loops[i].began = Minute
         /\ am.loops[i].next = 2 * Minute

\* Loop i of the AmethystClient begins a sleep in this step.
BeginsSleep(i) ==
    /\ i \in 1..Len(am.loops')
    /\ i \in 1..Len(am.loops)
    /\ am.loops'[i] # am.loops[i]
    /\ am.loops'[i].pc = "sleep"
    /\ am.loops'[i].task = "pending"

\* The loop of schedule widget i begins a sleep of wait_until in this step.
WidgetBeginsSleep(i) ==
    /\ i \in 1..Len(cl.sloops')
    /\ i \in 1..Len(cl.sloops)
    /\ cl.sloops'[i] # cl.sloops[i]
    /\ cl.sloops'[i].pc \in {"half", "final"}

\* A sleep that begins at time t with the occurrence at time next ahead:
\* with more than cutoff seconds remaining it lasts half of them (to the
\* whole second), is not final and ends before the occurrence; otherwise
\* it is final and ends at the occurrence.
SleepAsClaimed(t, next, wake, final, cutoff) ==
    LET remaining == next - t IN
    IF remaining > cutoff
    THEN /\ ~final
         /\ 2 * (wake - t) \in {remaining, remaining + 1}
         /\ t < wake /\ wake < next
    ELSE /\ final
         /\ wake = (IF remaining > 0 THEN next ELSE t)

Recomputes(i) ==
    \/ am.loops[i].pc \in {"new", "post"}
    \/ am.loops[i].pc = "sleep" /\ am.loops[i].task = "cancelling"

\* Loop i waits with schedule s in its map and wakes no later than the
\* occurrence of s.
WaitsFor(i, s) ==
    /\ am.loops[i].pc = "sleep"
    /\ am.loops[i].task = "pending"
    /\ s \in DOMAIN am.loops[i].map
    /\ am.loops[i].wake <= am.loops[i].map[s]
    /\ am.loops[i].map[s] = NextOccurrence(am.heap[s].cb, am.loops[i].began)

\* C20: a schedule registered while the cron loop sleeps cancels that sleep,
\* and the loop takes the earliest occurrence anew over all schedules, the
\* new one included, before it invokes anything: every registered schedule
\* of a running client is in the map of a loop that wakes no later than its
\* occurrence, or a loop is about to compute the map anew; a loop never
\* awaits a sleep task that is finished or cancelled.
C20_RegistrationCancelsSleep ==
    /\ []((kind = "AmethystClient" /\ am.ready /\ ~am.onready /\ ~am.closed)
           => \A j \in 1..Len(am.schedules) :
                \E i \in 1..Len(am.loops) :
                  Recomputes(i) \/ WaitsFor(i, am.schedules[j]))
    /\ [](\A i \in 1..Len(am.loops) :
            am.loops[i].pc = "sleep"
              => am.loops[i].task \in {"pending", "cancelling"})
    /\ [][(/\ last'.op = "register_schedule"
            /\ last' # last
            /\ am.sleep # 0
            /\ am.loops[am.sleep].pc = "sleep"
            /\ am.loops[am.sleep].task = "pending")
           => am.loops'[am.sleep].task = "cancelling"]_vars

\* A loop that waited for a later occurrence was cancelled by a
\* registration, and invoked the new schedule alone at its earlier
\* occurrence.
C20_Witness ==
    /\ kind = "AmethystClient"
    /\ Len(am.loops) = 1
    /\ \E f \in run.fired :
         /\ f.began > 0
         /\ Cardinality(DOMAIN f.map) = 2
         /\ Cardinality(f.set) = 1
         /\ \E s \in f.set : am.schedules[Len(am.schedules)] = s
         /\ \E s \in DOMAIN f.map : f.map[s] > f.next

\* C21: no schedule is invoked twice for the same occurrence instant: two
\* invocations of the cron loop that hold the same schedule are for
\* different occurrences.
C21_NoDoubleInvocation ==
    kind = "AmethystClient" =>
      \A f, g \in run.fired :
        (f.next = g.next /\ f.set \cap g.set # {}) => f = g

\* The cron loop tasks of the AmethystClient that have not returned.
LiveLoops == {i \in 1..Len(am.loops) : am.loops[i].pc \notin {"ended", "crashed"}}

\* C22: an AmethystClient has at most one cron loop task, whatever the
\* order of register_schedule calls, ready signals and on_ready callbacks.
C22_AtMostOneLoop ==
    kind = "AmethystClient" => Cardinality(LiveLoops) <= 1

\* C23: with sleeps that last at least what was asked for, a schedule is
\* never invoked (nor skipped as due) before the occurrence computed for
\* it: the sleeps of a cycle add up to at least the distance from the start
\* of the cycle to the occurrence, and a loop that has left its final sleep
\* is at or past the occurrence.
C23_NeverBeforeOccurrence ==
    /\ \A f \in run.fired \cup run.skipped :
         /\ f.at >= f.next
         /\ \A s \in f.set : s \in DOMAIN f.map => f.at >= f.map[s]
    /\ \A i \in 1..Len(am.loops) :
         am.loops[i].pc = "post" => now >= am.loops[i].next

\* A schedule widget's loop began its wait more than the cutoff before the
\* occurrence and handed the callback over at the occurrence or later.
C23_Witness ==
    /\ kind = "Client"
    /\ \E f \in run.fired :
         f.next - f.began > MinStep /\ f.at >= f.next

\* C34: every coroutine given to Client.create_task is handed to the event
\* loop exactly once.  Until setup_hook has drained the pending list, the
\* list holds every submitted coroutine in the order of submission and none
\* has been started; the drain starts them in that order and leaves no
\* list (None); from then on a submitted coroutine is started at once.
C34_TasksStartedOnce ==
    kind = "Client" =>
      LET all == [i \in 1..Len(cl.sloops) |-> i] IN
      IF cl.setup
      THEN /\ cl.tasks = <<>>
           /\ cl.started = all
           /\ \A i \in 1..Len(cl.sloops) : cl.sloops[i].pc # "queued"
      ELSE /\ cl.tasks = all
           /\ cl.started = <<>>
           /\ \A i \in 1..Len(cl.sloops) : cl.sloops[i].pc = "queued"

\* Two coroutines were submitted and started, in the order of submission,
\* and both loops have begun to run.
C34_Witness ==
    /\ kind = "Client"
    /\ cl.setup
    /\ last = Call("register_plugin", "Cron", "none")
    /\ cl.started = <<1, 2>>
    /\ \A i \in 1..Len(cl.sloops) : cl.sloops[i].pc \notin {"queued", "new"}

\* C39: whenever the cron loop of an AmethystClient computes the earliest
\* next occurrence it has a schedule to compute it from: a loop exists only
\* when a schedule is registered, no loop has failed on an empty list, every
\* loop that computed holds an occurrence for at least one schedule, and
\* the list of schedules only grows.
C39_LoopHasSchedules ==
    /\ [](kind = "AmethystClient" =>
            /\ Len(am.loops) > 0 => Len(am.schedules) > 0
            /\ \A i \in 1..Len(am.loops) :
                 /\ am.loops[i].pc # "crashed"
                 /\ am.loops[i].pc \in {"sleep", "post"} =>
                      /\ DOMAIN am.loops[i].map # {}
                      /\ DOMAIN am.loops[i].map \subseteq Range(am.schedules))
    /\ [][/\ Len(am'.schedules) >= Len(am.schedules)
          /\ \A i \in 1..Len(am.schedules) : am'.schedules[i] = am.schedules[i]]_vars

\* The loop started by on_ready has computed the next occurrence of the two
\* schedules registered before the client was ready.
C39_Witness ==
    /\ kind = "AmethystClient"
    /\ Len(am.schedules) = 2
    /\ \E i \in 1..Len(am.loops) :
         /\ am.loops[i].by = "on_ready"
         /\ am.loops[i].pc = "sleep"
         /\ DOMAIN am.loops[i].map = Range(am.schedules)

(* ------------------------------------------------------------------ *)
(* The schedules under a fair event loop                               *)
(* ------------------------------------------------------------------ *)

\* The second up to which the clock runs on once the client is closed, for
\* the loops to be seen to their end.
MaxDrain == 125

RunningLoops ==
    IF kind = "AmethystClient"
    THEN {i \in 1..Len(am.loops) : am.loops[i].pc \notin {"ended", "crashed"}}
    ELSE {i \in 1..Len(cl.sloops) : cl.sloops[i].pc \notin {"ended", "queued"}}

IsClosed == IF kind = "AmethystClient" THEN am.closed ELSE cl.closed

\* The clock of SpecCron, which does not stop at MaxTime while a closed
\* client still has a loop running.
TickOn ==
    /\ \/ now < MaxTime
       \/ IsClosed /\ RunningLoops # {} /\ now < MaxDrain
    /\ ~Urgent
    /\ now' = now + 1
    /\ UNCHANGED <<kind, net, cl, am, run, last>>

NextCronFair ==
    \/ \E n \in FreeSchedules : RegisterSchedule(n)
    \/ ReadySignal
    \/ OnReady
    \/ AmClose
    \/ \E i \in 1..MaxLoops : LoopStart(i)
    \/ \E i \in 1..MaxLoops : LoopWake(i)
    \/ \E i \in 1..MaxLoops : LoopCancelled(i)
    \/ \E i \in 1..MaxLoops : LoopPost(i)
    \/ RegisterPlugin("Cron")
    \/ SetupHook
    \/ ClientReady
    \/ ClientClose
    \/ \E i \in 1..MaxLoops : WidgetLoopStart(i)
    \/ \E i \in 1..MaxLoops : WidgetLoopWake(i)
    \/ TickOn

\* The event loop runs every callback that is ready and every timer that is
\* due, and time passes.
SpecCronFair ==
    /\ InitCron
    /\ [][NextCronFair]_vars
    /\ WF_vars(TickOn)
    /\ WF_vars(OnReady)
    /\ \A i \in 1..MaxLoops :
         /\ WF_vars(LoopStart(i))
         /\ WF_vars(LoopWake(i))
         /\ WF_vars(LoopCancelled(i))
         /\ WF_vars(LoopPost(i))
         /\ WF_vars(WidgetLoopStart(i))
         /\ WF_vars(WidgetLoopWake(i))

\* C38: once the client is closed every cron loop that runs comes to its
\* end, and no loop computes a next occurrence again: a loop whose wait is
\* over or cancelled goes on with the cycle it is in at most.
C38_LoopsEndAfterClose ==
    /\ IsClosed ~> (RunningLoops = {})
    /\ [][am.closed => \A i \in 1..Len(am.loops) :
            /\ am'.loops[i].began = am.loops[i].began
            /\ am'.loops[i].map = am.loops[i].map
            /\ am'.loops[i].next = am.loops[i].next]_vars
    /\ [][cl.closed => \A i \in 1..Len(cl.sloops) :
            /\ cl'.sloops[i].began = cl.sloops[i].began
            /\ cl'.sloops[i].when = cl.sloops[i].when]_vars

\* The client was closed while its cron loop slept for an occurrence later
\* than MaxTime; the loop has slept to the occurrence and ended.
C38_Witness ==
    /\ kind = "AmethystClient"
    /\ am.closed
    /\ RunningLoops = {}
    /\ \E i \in 1..Len(am.loops) :
         /\ am.loops[i].pc = "ended"
         /\ am.loops[i].next > MaxTime
         /\ now > am.loops[i].next

(* ------------------------------------------------------------------ *)
(* Guild scoping and event delivery (amethyst.py, widget/event)       *)
(* ------------------------------------------------------------------ *)

\* Guild ids; 0 stands for None (no guild configured, or an event that
\* comes from no guild).
GuildIds == {1, 2}

MaxListeners == 2

\* Event widgets: one of plugin instance 1, one of plugin instance 2, and a
\* function decorated with Client.event (no plugin, 0).
EventWidgets == {"a_on_msg", "b_on_msg", "anon"}

ListenerPlugin(w) ==
    CASE w = "a_on_msg" -> 1 [] w = "b_on_msg" -> 2 [] OTHER -> 0

\* Client.guild_allowed, for a check that is an int or None.
GuildAllowed(st, check) ==
    IF st.guild = 0 THEN TRUE
    ELSE IF check # 0 THEN check = st.guild
    ELSE FALSE

\* Client.run(guild=g): self._guild = guild or self._guild
RunClient(g) ==
    /\ kind = "Client"
    /\ ~cl.setup
    /\ cl' = [cl EXCEPT !.guild = IF g # 0 THEN g ELSE @]
    /\ last' = Call("run", g, "none")
    /\ UNCHANGED <<kind, net, am, run, now>>

\* EventWidget.register: the coroutine of client.wait_for(event,
\* check=handler) is handed to create_task; it installs the listener when
\* it runs, at once after setup_hook and from the pending list before.
EventRegister(w) ==
    /\ kind = "Client"
    /\ Len(cl.listeners) < MaxListeners
    /\ \A i \in 1..Len(cl.listeners) : cl.listeners[i].w # w
    /\ cl' = [cl EXCEPT !.listeners =
                 Append(@, [w |-> w, plugin |-> ListenerPlugin(w),
                            live |-> cl.setup])]
    /\ last' = Call("register", w, "none")
    /\ UNCHANGED <<kind, net, am, run, now>>

\* Callbacks of event widgets that raise when called.
EventCallbackRaises(w) == w = "b_on_msg"

\* wrapper(*args): an exception of the callback is logged and goes no
\* further.
WrapperOutcome(w) == IF EventCallbackRaises(w) THEN "logged" ELSE "returned"

RECURSIVE HandlerCalls(_, _, _)
\* discord.py calls the check of every listener of the event; handler
\* prepends the plugin, starts wrapper(*args) as a task and returns False,
\* so the listener stays.
HandlerCalls(ls, args, i) ==
    IF i > Len(ls) THEN <<>>
    ELSE IF ~ls[i].live THEN HandlerCalls(ls, args, i + 1)
    ELSE <<[cb |-> ls[i].w,
            params |-> IF ls[i].plugin # 0
                       THEN <<PluginObject(ls[i].plugin)>> \o args
                       ELSE args,
            out |-> WrapperOutcome(ls[i].w)]>> \o HandlerCalls(ls, args, i + 1)

HandlerReturnsTrue(l) == TRUE

\* The value handler returns to the gateway client as the listener's check.
HandlerReturns(l) == FALSE

\* The listeners the gateway client keeps after an occurrence: it drops a
\* listener whose check returned true.
ListenersAfter(ls) == SelectSeq(ls, LAMBDA l : ~l.live \/ ~HandlerReturns(l))

\* The gateway delivers an event that comes from guild g.
Dispatch(g) ==
    /\ kind = "Client"
    /\ cl.setup
    /\ run' = [run EXCEPT !.calls =
                  HandlerCalls(cl.listeners, <<[val |-> "event"]>>, 1)]
    /\ cl' = [cl EXCEPT !.listeners = ListenersAfter(@)]
    /\ last' = Call("dispatch", g, "none")
    /\ UNCHANGED <<kind, net, am, now>>

InitGuild ==
    /\ kind = "Client"
    /\ \E g \in GuildIds \cup {0} : cl = [ClientInit EXCEPT !.guild = g]
    /\ am = AmInit
    /\ run = RunInit
    /\ net = <<>>
    /\ now = 0
    /\ last = NoCall

NextGuild ==
    \/ \E g \in GuildIds \cup {0} : RunClient(g)
    \/ \E w \in EventWidgets : EventRegister(w)
    \/ SetupHook
    \/ \E g \in GuildIds \cup {0} : Dispatch(g)

SpecGuild == InitGuild /\ [][NextGuild]_vars

\* C16: with a guild configured, an event from another guild (or from no
\* guild) invokes no registered handler; with none configured, or for the
\* configured guild, every installed handler is invoked.
C16_OtherGuildIgnored ==
    last.op = "dispatch" =>
      IF GuildAllowed(cl, last.arg)
      THEN Len(run.calls) = Len(SelectSeq(cl.listeners, LAMBDA l : l.live))
      ELSE run.calls = <<>>

\* C35: an EventWidget registered with the Client stays subscribed for as
\* long as the client runs: no occurrence of the event removes it, whether
\* its callback returned or raised, and every occurrence schedules the
\* callback of every installed widget exactly once.
C35_SubscriptionPersists ==
    /\ [][/\ Len(cl'.listeners) >= Len(cl.listeners)
          /\ \A i \in 1..Len(cl.listeners) :
               /\ cl'.listeners[i].w = cl.listeners[i].w
               /\ cl.listeners[i].live => cl'.listeners[i].live]_vars
    /\ [](last.op = "dispatch" =>
            LET live == SelectSeq(cl.listeners, LAMBDA l : l.live) IN
              /\ Len(run.calls) = Len(live)
              /\ \A i \in 1..Len(live) : run.calls[i].cb = live[i].w)

\* An occurrence was delivered to two installed widgets, one of which raised.
C35_Witness ==
    /\ last.op = "dispatch"
    /\ Len(run.calls) = 2
    /\ \E i \in 1..2 : run.calls[i].out = "logged"
    /\ \E i \in 1..2 : run.calls[i].out = "returned"

(* ------------------------------------------------------------------ *)
(* Events of the EventWidget widget-plugin (widget/event/widget.py)    *)
(* ------------------------------------------------------------------ *)

\* widget.event of the event widgets, by name; Event("saved",
\* coroutine=False) is the one event that is not a coroutine event.
WidgetEvent(w) == IF w = "b_on_save" THEN "saved" ELSE "on_message"

WidgetEvents == {"on_message", "saved"}

\* self.events[event] of the EventWidget instance: the callbacks its
\* register appended, in order.
WidgetHandlers(st, e) ==
    SelectSeq(st.wregs, LAMBDA r : WidgetPluginOf(r[2]) = "EventW" /\ WidgetEvent(r[2]) = e)

\* Calling the function EventWidget.register set on the client under the
\* event's name.  The conditional expression is the body of the outer
\* lambda: for a coroutine event every handler is called, with the plugin
\* of the registration that created the function; otherwise the value is
\* the inner lambda, which nobody calls.
EventAttrCall(st, e, args) ==
    LET hs == WidgetHandlers(st, e) IN
    IF IsCoroutine(e)
    THEN [i \in 1..Len(hs) |->
            [cb |-> hs[i][2], params |-> <<PluginObject(hs[1][3])>> \o args]]
    ELSE <<>>

\* The gateway client's dispatch finds the attribute named after the event.
WidgetDispatch(e) ==
    /\ kind = "Client"
    /\ WidgetHandlers(cl, e) # <<>>
    /\ run' = [run EXCEPT !.calls = EventAttrCall(cl, e, <<[val |-> "event"]>>)]
    /\ last' = Call("dispatch", e, "none")
    /\ UNCHANGED <<kind, net, cl, am, now>>

InitWidgetEvent ==
    /\ kind = "Client"
    /\ cl = ClientInit
    /\ am = AmInit
    /\ run = RunInit
    /\ net = <<>>
    /\ now = 0
    /\ last = NoCall

NextWidgetEvent ==
    \/ \E p \in AllPluginTypes : RegisterPlugin(p)
    \/ \E d \in DepValues : AddDependency(d)
    \/ \E e \in WidgetEvents : WidgetDispatch(e)

SpecWidgetEvent == InitWidgetEvent /\ [][NextWidgetEvent]_vars

\* C31: when an event is dispatched through the EventWidget widget-plugin,
\* every handler registered for the event is called once, in the order of
\* registration, with the plugin instance that owns the handler followed by
\* the event's arguments; this holds for handlers of several plugins on one
\* event and for events that are not coroutine events.
C31_HandlersGetOwnPlugin ==
    last.op = "dispatch" =>
      LET hs == WidgetHandlers(cl, last.arg) IN
        run.calls = [i \in 1..Len(hs) |->
                       [cb |-> hs[i][2],
                        params |-> <<PluginObject(hs[i][3]), [val |-> "event"]>>]]

(* ------------------------------------------------------------------ *)
(* Comparison of local and remote commands                             *)
(* ------------------------------------------------------------------ *)

\* Values as Python holds them: a dict, a list, or any other value (written
\* as its repr).
D(f) == [t |-> "dict", v |-> f]

L(q) == [t |-> "list", v |-> q]

V(x) == [t |-> "val", v |-> x]

RECURSIVE NodeIsSubset(_, _)
\* util._node_is_subset
NodeIsSubset(superset, subset) ==
    IF superset.t = "dict" /\ subset.t = "dict"
    THEN \A k \in DOMAIN subset.v :
           k \in DOMAIN superset.v /\ NodeIsSubset(superset.v[k], subset.v[k])
    ELSE IF superset.t = "list" /\ subset.t = "list"
    THEN \A j \in 1..Len(subset.v) :
           \E i \in 1..Len(superset.v) : NodeIsSubset(superset.v[i], subset.v[j])
    ELSE superset.t = "val" /\ subset.t = "val" /\ superset.v = subset.v

IsDictSubsetEqual(superset, subset) == superset = subset

\* util.is_dict_subset
IsDictSubset(superset, subset) == NodeIsSubset(superset, subset)

\* Commands the service holds, and options of one of them.
MaxRemote == 3

MaxOptions == 2

\* Commands declared outside any plugin.
FreeCommands == {"ping", "ban"}

IsMenu(n) == n \in {"a_menu", "b_menu"}

\* The application's commands as their decorators define them.  type is the
\* AppCommandType value (1 chat input, 2 user, 3 message), perms the value
\* of the default permissions ("None" when there are none).
CommandDef(n) ==
    CASE n = "ping"   -> [name |-> "ping", type |-> "1", description |-> "Ping",
                          options |-> <<[name |-> "target", type |-> "6"]>>,
                          perms |-> "None"]
      [] n = "ban"    -> [name |-> "ban", type |-> "1", description |-> "Ban",
                          options |-> <<>>, perms |-> "8"]
      [] n = "a_menu" -> [name |-> "a_menu", type |-> "3", description |-> "",
                          options |-> <<>>, perms |-> "None"]
      [] n = "b_menu" -> [name |-> "b_menu", type |-> "2", description |-> "",
                          options |-> <<>>, perms |-> "8"]
      [] OTHER        -> [name |-> n, type |-> "1", description |-> n,
                          options |-> <<>>, perms |-> "None"]

\* self.tree.get_commands()
LocalCommands ==
    IF kind = "Client"
    THEN [i \in 1..Len(cl.tree) |-> CommandDef(cl.tree[i])]
    ELSE [i \in 1..Len(am.tree) |-> CommandDef(am.heap[am.tree[i]].cb)]

OptionDict(o) == D([name |-> V(o.name), type |-> V(o.type)])

\* Command.to_dict() and ContextMenu.to_dict() of the local command.
LocalDict(c) ==
    IF IsMenu(c.name)
    THEN D([name |-> V(c.name), type |-> V(c.type), nsfw |-> V("False"),
            dm_permission |-> V("True"),
            default_member_permissions |-> V(c.perms)])
    ELSE D([name |-> V(c.name), type |-> V(c.type),
            description |-> V(c.description),
            options |-> L([i \in 1..Len(c.options) |-> OptionDict(c.options[i])]),
            nsfw |-> V("False"), dm_permission |-> V("True"),
            default_member_permissions |-> V(c.perms)])

\* The AppCommand the service returns for an uploaded command.
RemoteOf(c) == [name |-> c.name, type |-> c.type, description |-> c.description,
                options |-> c.options, perms |-> c.perms]

RemoteOptionDict(o) ==
    D([name |-> V(o.name), type |-> V(o.type), description |-> V("..."),
       required |-> V("True")])

\* AppCommand.to_dict(), to which the fields f are added.
RemoteDict(r, f) ==
    D([k \in {"id", "application_id", "name", "type", "description", "options"}
             \cup DOMAIN f |->
         CASE k = "id"             -> V("1")
           [] k = "application_id" -> V("1")
           [] k = "name"           -> V(r.name)
           [] k = "type"           -> V(r.type)
           [] k = "description"    -> V(r.description)
           [] k = "options"        ->
                L([i \in 1..Len(r.options) |-> RemoteOptionDict(r.options[i])])
           [] OTHER                -> f[k]])

\* The repr of an AppCommand's default_member_permissions attribute: None, or
\* a Permissions object, which equals no int.
PermissionsObject(p) == IF p = "None" THEN "None" ELSE "Permissions"

NamesOf(q) == {q[i].name : i \in 1..Len(q)}

ByName(q, n) == q[CHOOSE i \in 1..Len(q) : q[i].name = n /\
                        \A j \in (i + 1)..Len(q) : q[j].name # n]

\* AmethystClient.commands_in_sync
CommandsInSync(locals, remotes) ==
    LET local  == [n \in NamesOf(locals) |-> LocalDict(ByName(locals, n))]
        remote == [n \in NamesOf(remotes) |->
                     LET c == ByName(remotes, n) IN
                     RemoteDict(c,
                       [nsfw |-> V("False"), dm_permission |-> V("True"),
                        default_member_permissions |->
                          V(PermissionsObject(c.perms))])]
    IN  IF (DOMAIN local \ DOMAIN remote) \cup (DOMAIN remote \ DOMAIN local) # {}
        THEN FALSE
        ELSE IsDictSubset(D(remote), D(local))

\* discord.utils.get(remotes, name=..., type=...): the first match, 0 for None.
UtilsGet(remotes, name, type) ==
    IF \E i \in 1..Len(remotes) : remotes[i].name = name /\ remotes[i].type = type
    THEN CHOOSE i \in 1..Len(remotes) :
           /\ remotes[i].name = name /\ remotes[i].type = type
           /\ \A j \in 1..(i - 1) :
                ~(remotes[j].name = name /\ remotes[j].type = type)
    ELSE 0

\* The body of tree_changed's loop for one local command: TRUE when it
\* returns True.
LocalChanged(c, remotes) ==
    LET i == UtilsGet(remotes, c.name, c.type) IN
    IF i = 0 THEN TRUE
    ELSE LET superset == RemoteDict(remotes[i],
                           [default_member_permissions |-> V(remotes[i].perms),
                            dm_permission |-> V("True"), nsfw |-> V("False")])
             d        == LocalDict(c)
             subset   == IF c.type \in {"3", "2"}
                         THEN D([k \in DOMAIN d.v \cup {"description"} |->
                                   IF k = "description" THEN V("") ELSE d.v[k]])
                         ELSE d
         IN  ~IsDictSubset(superset, subset)

\* Client.tree_changed
TreeChanged(locals, remotes) ==
    IF Len(remotes) # Len(locals) THEN TRUE
    ELSE \E i \in 1..Len(locals) : LocalChanged(locals[i], remotes)

\* AmethystClient.register_command of a command declared outside a plugin.
RegisterCommand(n) ==
    /\ kind = "AmethystClient"
    /\ LET r == RegisterCommandOp(am, DescId(n)) IN
         /\ am' = Done(r)
         /\ last' = Call("register_command", n, r.exc)
    /\ UNCHANGED <<kind, net, cl, run, now>>

\* CommandTree.sync: the service then holds the local commands.
TreeSync ==
    /\ net' = [i \in 1..Len(LocalCommands) |-> RemoteOf(LocalCommands[i])]
    /\ last' = Call("sync", "none", "none")
    /\ UNCHANGED <<kind, cl, am, run, now>>

\* Another deployment of the application changes what the service holds: a
\* command is deleted.
RemoteDelete(i) ==
    /\ i \in 1..Len(net)
    /\ net' = [j \in 1..(Len(net) - 1) |-> IF j < i THEN net[j] ELSE net[j + 1]]
    /\ last' = Call("remote", "delete", "none")
    /\ UNCHANGED <<kind, cl, am, run, now>>

\* USER and MESSAGE commands have an empty description and no options.
RemoteEdit(i, f) ==
    /\ i \in 1..Len(net)
    /\ f = "perms" \/ net[i].type = "1"
    /\ net' = [net EXCEPT ![i] =
                 CASE f = "description" -> [@ EXCEPT !.description = "edited"]
                   [] f = "perms"       -> [@ EXCEPT !.perms =
                                              IF @ = "None" THEN "8" ELSE "None"]
                   [] f = "more"        -> [@ EXCEPT !.options =
                                              <<[name |-> "extra", type |-> "3"]>> \o @]
                   [] f = "fewer"       -> [@ EXCEPT !.options = <<>>]]
    /\ net'[i] # net[i]
    /\ Len(net'[i].options) <= MaxOptions
    /\ last' = Call("remote", f, "none")
    /\ UNCHANGED <<kind, cl, am, run, now>>

\* A command the local tree lacks is created.
RemoteCreate ==
    /\ "zap" \notin NamesOf(net)
    /\ net' = Append(net, RemoteOf(CommandDef("zap")))
    /\ last' = Call("remote", "create", "none")
    /\ UNCHANGED <<kind, cl, am, run, now>>

\* await client.commands_in_sync()
CheckCommandsInSync ==
    /\ kind = "AmethystClient"
    /\ last' = Call("commands_in_sync", CommandsInSync(LocalCommands, net), "none")
    /\ UNCHANGED <<kind, net, cl, am, run, now>>

\* await client.tree_changed()
CheckTreeChanged ==
    /\ kind = "Client"
    /\ last' = Call("tree_changed", TreeChanged(LocalCommands, net), "none")
    /\ UNCHANGED <<kind, net, cl, am, run, now>>

\* Client.refresh_tree
SyncedCommands(locals) == [i \in 1..Len(locals) |-> RemoteOf(locals[i])]

RefreshTreeAlways(locals, remotes) ==
    [synced |-> TRUE, net |-> SyncedCommands(locals)]

\* Client.refresh_tree: whether tree.sync was awaited, and what the service
\* holds afterwards.
RefreshTreeOp(locals, remotes) ==
    IF TreeChanged(locals, remotes)
    THEN [synced |-> TRUE, net |-> SyncedCommands(locals)]
    ELSE [synced |-> FALSE, net |-> remotes]

RefreshTree ==
    /\ kind = "Client"
    /\ LET r == RefreshTreeOp(LocalCommands, net) IN
         /\ net' = r.net
         /\ run' = [run EXCEPT !.ret = IF r.synced THEN "synced" ELSE "skipped"]
    /\ last' = Call("refresh_tree", TreeChanged(LocalCommands, net), "none")
    /\ UNCHANGED <<kind, cl, am, now>>

InitSync ==
    /\ kind \in {"Client", "AmethystClient"}
    /\ cl = ClientInit
    /\ am = AmInit
    /\ net = <<>>
    /\ run = RunInit
    /\ now = 0
    /\ last = NoCall

NextSync ==
    \/ \E n \in FreeCommands : RegisterCommand(n)
    \/ \E p \in {"Alpha", "Beta"} : RegisterPlugin(p)
    \/ AddDependency([type |-> "Db", id |-> 1])
    \/ TreeSync
    \/ \E i \in 1..MaxRemote : RemoteDelete(i)
    \/ \E i \in 1..MaxRemote : \E f \in {"description", "perms", "more", "fewer"} :
         RemoteEdit(i, f)
    \/ RemoteCreate
    \/ CheckCommandsInSync
    \/ CheckTreeChanged
    \/ RefreshTree

SpecSync == InitSync /\ [][NextSync]_vars

(* ------------------------------------------------------------------ *)
(* Claims about the comparison                                         *)
(* ------------------------------------------------------------------ *)

\* The remote command r has every field of the local command l, with an
\* equal value.
Covers(r, l) ==
    /\ r.name = l.name
    /\ r.type = l.type
    /\ IsMenu(l.name) \/ r.description = l.description
    /\ r.perms = l.perms
    /\ \A j \in 1..Len(l.options) : \E i \in 1..Len(r.options) :
         r.options[i].name = l.options[j].name /\ r.options[i].type = l.options[j].type

ReportedInSync ==
    \/ last.op = "commands_in_sync" /\ last.arg
    \/ last.op = "tree_changed" /\ ~last.arg

\* C9: the comparison reports in sync when every local command has a remote
\* command whose fields are a superset of the local fields with equal
\* values, and out of sync whenever a local command has no remote
\* counterpart.
C9_InSyncWhenRemoteCovers ==
    last.op \in {"commands_in_sync", "tree_changed"} =>
      /\ (\A j \in 1..Len(LocalCommands) : \E i \in 1..Len(net) :
            Covers(net[i], LocalCommands[j])) => ReportedInSync
      /\ (\E j \in 1..Len(LocalCommands) : \A i \in 1..Len(net) :
            net[i].name # LocalCommands[j].name) => ~ReportedInSync

\* C36: refresh_tree synchronises the command tree exactly when
\* tree_changed reports a difference between the local and the remote
\* commands; otherwise it leaves the remote commands as they are.
C36_SyncExactlyWhenChanged ==
    [][last'.op = "refresh_tree" =>
         LET changed == TreeChanged(LocalCommands, net) IN
           /\ (run'.ret = "synced") <=> changed
           /\ (run'.ret = "skipped") <=> ~changed
           /\ net' = IF changed THEN SyncedCommands(LocalCommands) ELSE net]_vars

\* refresh_tree found the remote commands to differ from the local ones and
\* uploaded the local commands.
C36_Witness ==
    /\ kind = "Client"
    /\ last = Call("refresh_tree", TRUE, "none")
    /\ run.ret = "synced"
    /\ Len(net) > 1
    /\ net = SyncedCommands(LocalCommands)

(* ------------------------------------------------------------------ *)
(* is_dict_subset on nested values (util.py)                           *)
(* ------------------------------------------------------------------ *)

\* Longest list among the values compared.
MaxList == 2

\* The values are listed in tuples and chosen by index: a code names a
\* node by its kind and the indexes of what it is made of.
AtomSeq == <<V(1), V(2)>>

DictSeq == <<D([x |-> V(1)]), D([x |-> V(2)]), D([x |-> V(1), y |-> V(1)]),
             D([x |-> V(2), y |-> V(1)]), D([y |-> V(1)])>>

\* Elements of lists: scalars and dictionaries.
ElementSeq == <<V(1), V(2), D([x |-> V(1)]), D([x |-> V(1), y |-> V(1)]),
                D([x |-> V(2)])>>

NodeCodes ==
    {[k |-> "atom", ix |-> <<i>>] : i \in 1..Len(AtomSeq)}
    \cup {[k |-> "dict", ix |-> <<i>>] : i \in 1..Len(DictSeq)}
    \cup {[k |-> "list", ix |-> q] :
            q \in UNION {[1..n -> 1..Len(ElementSeq)] : n \in 0..MaxList}}
    \cup {[k |-> "none", ix |-> <<>>]}

NodeOf(c) ==
    CASE c.k = "atom" -> AtomSeq[c.ix[1]]
      [] c.k = "dict" -> DictSeq[c.ix[1]]
      [] OTHER -> L([i \in 1..Len(c.ix) |-> ElementSeq[c.ix[i]]])

\* The dictionaries handed to is_dict_subset: key a holds any node, key b a
\* scalar; either may be absent.
TopCodes == [a : NodeCodes, b : 0..Len(AtomSeq)]

TopOf(c) ==
    D(IF c.a.k = "none"
      THEN [key \in (IF c.b = 0 THEN {} ELSE {"b"}) |-> AtomSeq[c.b]]
      ELSE IF c.b = 0 THEN [key \in {"a"} |-> NodeOf(c.a)]
      ELSE [a |-> NodeOf(c.a), b |-> AtomSeq[c.b]])

\* is_dict_subset(superset, subset) is called with the pending arguments.
CallIsDictSubset ==
    /\ Len(run.calls) = 1
    /\ run' = [run EXCEPT !.ret =
                  IsDictSubset(run.calls[1].superset, run.calls[1].subset)]
    /\ last' = Call("is_dict_subset", run.calls[1], "none")
    /\ UNCHANGED <<kind, net, cl, am, now>>

InitSubset ==
    /\ kind = "AmethystClient"
    /\ cl = ClientInit
    /\ am = AmInit
    /\ \E a \in TopCodes, b \in TopCodes :
         run = [RunInit EXCEPT !.calls =
                  <<[superset |-> TopOf(a), subset |-> TopOf(b)]>>]
    /\ net = <<>>
    /\ now = 0
    /\ last = NoCall

NextSubset == CallIsDictSubset

SpecSubset == InitSubset /\ [][NextSubset]_vars

\* Containment written level by level.
DictIn(x, y, In(_, _)) ==
    \A k \in DOMAIN y.v : k \in DOMAIN x.v /\ In(x.v[k], y.v[k])

ListIn(x, y, In(_, _)) ==
    \A j \in DOMAIN y.v : \E i \in DOMAIN x.v : In(x.v[i], y.v[j])

In0(x, y) == x.t = "val" /\ y.t = "val" /\ x.v = y.v

In1(x, y) ==
    CASE x.t = "dict" /\ y.t = "dict" -> DictIn(x, y, In0)
      [] x.t = "list" /\ y.t = "list" -> ListIn(x, y, In0)
      [] OTHER -> In0(x, y)

In2(x, y) ==
    CASE x.t = "dict" /\ y.t = "dict" -> DictIn(x, y, In1)
      [] x.t = "list" /\ y.t = "list" -> ListIn(x, y, In1)
      [] OTHER -> In0(x, y)

In3(x, y) ==
    CASE x.t = "dict" /\ y.t = "dict" -> DictIn(x, y, In2)
      [] x.t = "list" /\ y.t = "list" -> ListIn(x, y, In2)
      [] OTHER -> In0(x, y)

\* C18: is_dict_subset(superset, subset) is true exactly when every key of
\* subset is in superset with a value contained in superset's: dictionaries
\* key by key, lists by membership whatever the order, other values by
\* equality.
C18_SubsetIsRecursiveContainment ==
    last.op = "is_dict_subset" =>
      (run.ret <=> In3(last.arg.superset, last.arg.subset))

\* True was returned for a list holding a dictionary and a scalar against a
\* list holding the scalar and a dictionary with both keys, in the other
\* order, under a superset that has a key the subset lacks.
C18_Witness ==
    /\ last.op = "is_dict_subset"
    /\ run.ret = TRUE
    /\ DOMAIN last.arg.superset.v = {"a", "b"}
    /\ DOMAIN last.arg.subset.v = {"a"}
    /\ LET p == last.arg.superset.v.a
           q == last.arg.subset.v.a
       IN  /\ p.t = "list" /\ q.t = "list"
           /\ Len(p.v) = 2 /\ Len(q.v) = 2
           /\ p.v[1].t = "val" /\ p.v[2].t = "dict"
           /\ q.v[1].t = "dict" /\ q.v[2].t = "val"
           /\ DOMAIN p.v[2].v = {"x", "y"} /\ DOMAIN q.v[1].v = {"x"}

====
